---- MODULE Spec2Model ----
(***************************************************************************)
(* Model of the i915 atomic mode-setting commit engine (intel_atomic.c):    *)
(* the flip queue that synchronises flips with the GPU, the worker that     *)
(* drains it, the vblank completion path and the pipeline teardown and      *)
(* device-reset entry points.                                               *)
(***************************************************************************)
EXTENDS Integers, Sequences, FiniteSets, TLC

(***************************************************************************)
(* Device topology and bounds                                               *)
(***************************************************************************)
\* dev->mode_config.num_crtc of the modelled device
NumPipes == 2
\* dev->mode_config.num_plane: sprite plane k sits on pipe k - 1
NumPlanes == 1
\* number of GPU rings that can hold a buffer's last request
NumRings == 1
\* bound on the number of flip descriptors created in a run
MaxFlips == 2
\* bound on the number of atomic_pipe_commit calls (values of next_flip_seq)
MaxCommits == 4
\* bound on the seqno a ring reaches
MaxSeqno == 1
\* bound on the frame counter of a pipe
MaxVbl == 1

Pipes == 0 .. (NumPipes - 1)
Planes == 1 .. NumPlanes
Rings == 1 .. NumRings
\* intel_plane->pipe: sprite k is wired to pipe k - 1
PlanePipe(k) == k - 1
\* one drm_flip_helper per crtc and per plane
Helpers == 0 .. (NumPipes + NumPlanes - 1)
CrtcHelper(p) == p
PlaneHelper(k) == NumPipes + k - 1

VARIABLES
    drm_async_gpu,      \* module parameter: synchronise flips with the GPU asynchronously
    crtc_active,        \* intel_crtc->active, per pipe
    flips,              \* every struct intel_flip ever allocated, by id
    flip_list,          \* dev_priv->flip.list: ids, head first
    queue_len,          \* dev_priv->flip.queue_len
    next_flip_seq,      \* dev_priv->flip.next_flip_seq
    ring_seqno,         \* seqno each ring has completed
    ring_irq_refcount,  \* ring->irq_get / irq_put references held by flips
    wedged,             \* dev_priv->mm.wedged
    work_pending,       \* flip.work is queued on flip.wq
    worker_pc,          \* position of intel_atomic_process_flips_work
    worker_flips,       \* the worker's local list "flips"
    worker_crtc,        \* the worker's intel_crtc
    scheduled_flip,     \* drm_flip_helper->scheduled_flip, per helper
    finish_list,        \* completed flips waiting for the helper's finish work
    vbl_count,          \* hardware frame counter, per pipe
    vbl_irq,            \* a vblank interrupt of the pipe is pending delivery
    cpc,                \* position of the committing thread in atomic_pipe_commit
    c_pipe,             \* pipe the committing thread is working on
    c_flips,            \* atomic_pipe_commit's local list "flips"
    c_rings_mask,       \* atomic_pipe_commit's rings_mask
    c_dirty,            \* per pipe, the objects the transaction flips
    complete_log        \* the flips the latest step completed, in order

flipvars == <<drm_async_gpu, crtc_active, flips, flip_list, queue_len,
              next_flip_seq, ring_seqno, ring_irq_refcount, wedged,
              work_pending, worker_pc, worker_flips, worker_crtc,
              scheduled_flip, finish_list, vbl_count, vbl_irq,
              cpc, c_pipe, c_flips, c_rings_mask, c_dirty, complete_log>>

VARIABLES
    num_plane,          \* dev->mode_config.num_plane
    crtc_list,          \* mode_config.crtc_list: the live struct intel_crtc, per pipe
    plane_list,         \* mode_config.plane_list: the live struct drm_plane, per plane
    connector_list,     \* mode_config.connector_list with each connector's encoder
    atomic_state,       \* the struct intel_atomic_state of the open transaction
    tpc,                \* position of the ioctl: idle, open, checked, ..., idle
    ret,                \* value the latest set, check or commit returned
    hw_writes,          \* display hook calls made since begin
    hw,                 \* what the display hooks last programmed, per pipe and plane
    pin_count,          \* pin count of each buffer object
    flips_queued,       \* objects whose flip the latest commit handed over
    nsets,              \* set calls made on the open transaction
    ntxn,               \* transactions begun
    begin_objs          \* the live objects and pin counts when begin was called

txnvars == <<num_plane, crtc_list, plane_list, connector_list, atomic_state,
             tpc, ret, hw_writes, hw, pin_count, flips_queued, nsets, ntxn,
             begin_objs>>

VARIABLES
    scan_active,        \* intel_crtc->active of the pipe
    scan_fb,            \* the buffer behind crtc->fb / plane->fb, per object
    scan_pin,           \* pin count of each buffer
    scan_flips,         \* every struct intel_flip allocated, by id
    scan_queue,         \* the groups waiting to be scheduled, oldest first
    scan_sched,         \* drm_flip_helper->scheduled_flip, per object
    scan_finish,        \* completed flips waiting for the finish work
    surf,               \* DSPSURF / SPRSURF: the buffer last written, per object
    surflive,           \* DSPSURFLIVE / SPRSURFLIVE: the buffer scanned out, 0 if off
    frmcount,           \* PIPE_FRMCOUNT of the pipe
    frm_irq             \* a vblank interrupt is pending delivery

scanvars == <<scan_active, scan_fb, scan_pin, scan_flips, scan_queue,
              scan_sched, scan_finish, surf, surflive, frmcount, frm_irq>>

VARIABLES
    dsb_buf,            \* the words of the command buffer, from index 0
    dsb_size,           \* intel_dsb->size, in words
    free_pos,           \* intel_dsb->free_pos
    ins_start_offset,   \* intel_dsb->ins_start_offset
    dsb_prog,           \* the instructions the calls had room for, in order
    dsb_starts,         \* every value ins_start_offset was given, in order
    dsb_hw,             \* DSB_CTRL, DSB_HEAD, DSB_TAIL and the busy status
    dsb_call,           \* the last commit or wait: what it found, wrote, logged
    dsb_pc,             \* "wait" while intel_dsb_wait polls
    wait_polls,         \* polls wait_for has made
    dsb_nops,           \* calls made so far
    dewake_scanline     \* intel_dsb->dewake_scanline

dsbvars == <<dsb_buf, dsb_size, free_pos, ins_start_offset, dsb_prog,
             dsb_starts, dsb_hw, dsb_call, dsb_pc, wait_polls, dsb_nops,
             dewake_scanline>>

VARIABLES
    vb_new,             \* intel_have_new_frmcount(dev)
    vb_mode,            \* crtc->hwmode of the pipe
    vb_base,            \* frame counter of the pipe when the run starts
    vb_nfrm,            \* vblank starts the pipe has gone through since
    vb_dsl,             \* PIPEDSL: the scanline the pipe is at
    vb_irq,             \* a vblank interrupt of the pipe is pending delivery
    vb_irqoff,          \* the committing thread has interrupts disabled
    vbl_received,       \* intel_crtc->vbl_received
    vb_pc,              \* position of the committing thread
    vb_val,             \* intel_pipe_vblank_evade's local "val"
    vb_timeout,         \* intel_pipe_vblank_evade's local "timeout", in jiffies
    vb_log,             \* what the latest evade did: waits made, warning logged
    vb_flip             \* the flip of the commit: counts at commit, arming, completion

vblvars == <<vb_new, vb_mode, vb_base, vb_nfrm, vb_dsl, vb_irq, vb_irqoff,
             vbl_received, vb_pc, vb_val, vb_timeout, vb_log, vb_flip>>

VARIABLES
    cmp_new,            \* intel_have_new_frmcount(dev)
    cmp_sample,         \* the count intel_flip_flip sampled
    cmp_target,         \* intel_flip->vbl_count
    cmp_cur,            \* the count the latest intel_flip_vblank read
    cmp_done,           \* what the latest intel_flip_vblank returned
    cmp_pc              \* "idle", "armed" or "checked"

cmpvars == <<cmp_new, cmp_sample, cmp_target, cmp_cur, cmp_done, cmp_pc>>

VARIABLES
    bw_gen,             \* INTEL_GEN(dev_priv)
    bw_crtc,            \* the committed intel_crtc_state of every pipe
    bw_obj,             \* dev_priv->bw_obj.state: the committed intel_bw_state
    bw_new,             \* the new crtc states of the transaction, by pipe
    bw_state,           \* the transaction's intel_bw_state, null if it has none
    bw_ret,             \* what intel_bw_atomic_check returned
    bw_pc,              \* "idle", "open" or "checked"
    bw_ntxn             \* transactions begun

bwvars == <<bw_gen, bw_crtc, bw_obj, bw_new, bw_state, bw_ret, bw_pc, bw_ntxn>>

VARIABLES
    scl_crtc,           \* the pipe: its num_scalers, and whether it is gen 10+ or GLK
    scl_old,            \* the old crtc state, as far as the setup reads it
    scl_new,            \* the new crtc state: scaler_state, pch_pfit.scaler_id, ...
    scl_planes,         \* the state of every plane: its scaler_id, its format
    scl_in_state,       \* the planes whose state is part of the transaction
    scl_before,         \* new state, planes and transaction as the call found them
    scl_warned,         \* a WARN_ON fired
    scl_ret,            \* what intel_atomic_setup_scalers returned
    scl_pc              \* "idle", "staged" or "done"

sclvars == <<scl_crtc, scl_old, scl_new, scl_planes, scl_in_state, scl_before,
             scl_warned, scl_ret, scl_pc>>

VARIABLES
    arm_old,            \* old_crtc_state->wm.skl: plane_ddb and plane_ddb_y
    arm_new,            \* new_crtc_state->wm.skl: plane_ddb and plane_ddb_y
    arm_update,         \* new_crtc_state->update_planes
    arm_visible,        \* per plane: uapi.visible or planar_slave in the new state
    arm_mask,           \* update_mask: the planes still to arm
    arm_ddb,            \* ddb[]: the allocations programmed so far
    arm_ddb_y,          \* ddb_y[]: the same for the planes' Y data
    arm_log,            \* the planes armed, in order, and how
    arm_warned,         \* the WARN_ON of skl_next_plane_to_commit fired
    arm_pc              \* "idle", "loop" or "done"

armvars == <<arm_old, arm_new, arm_update, arm_visible, arm_mask, arm_ddb,
             arm_ddb_y, arm_log, arm_warned, arm_pc>>

VARIABLES
    ref_plane,          \* plane->state: its uapi.fb and hw.fb
    ref_states,         \* the duplicates of the plane's state, by slot
    ref_fb,             \* the framebuffers' reference counts, those released
    ref_base,           \* the reference counts before any duplicate was made
    ref_last            \* the last operation, "NULL" for a failed duplicate

refvars == <<ref_plane, ref_states, ref_fb, ref_base, ref_last>>

VARIABLES
    seq_next,           \* dev_priv->flip.next_flip_seq, 32 bits wide
    seq_list,           \* flip.list: per flip, the commit that built it and its flip_seq
    seq_ncommit         \* pipe commits made so far

seqvars == <<seq_next, seq_list, seq_ncommit>>

VARIABLES
    evt_fb,             \* the id of the buffer behind crtc->fb / plane->fb, per object
    evt_st,             \* the open transaction: its flags, per object changed, event, old.fb
    evt_flips,          \* every struct intel_flip allocated, by id
    evt_sched,          \* drm_flip_helper->scheduled_flip, per object
    evt_list,           \* file_priv->event_list, oldest first
    evt_space,          \* file_priv->event_space, in events
    evt_pc,             \* "idle" or "open"
    evt_irq,            \* a vblank interrupt is pending delivery
    evt_log             \* per transaction: its flag, the objects set, their buffers at begin

evtvars == <<evt_fb, evt_st, evt_flips, evt_sched, evt_list, evt_space,
             evt_pc, evt_irq, evt_log>>

\* the variables of the parts of the display code modelled on their own
auxvars == <<vblvars, cmpvars, bwvars, sclvars, armvars, refvars, seqvars, evtvars>>

vars == <<flipvars, txnvars, scanvars, dsbvars, auxvars>>

FlipIds == 1 .. Len(flips)

\* i915_seqno_passed(a, b): (s32)(a - b) >= 0, on values far from the wrap
i915_seqno_passed(a, b) == a >= b

\* the helper a flip was initialised with by drm_flip_init
HelperOf(f) == IF f.plane = 0 THEN CrtcHelper(f.pipe) ELSE PlaneHelper(f.plane)

\* vbl_count_after_eq_new on the modelled (unwrapped) counter
vbl_count_after_eq(a, b) == a >= b

\* intel_vbl_check / intel_flip_vblank: has the pending flip latched by count cur
intel_vbl_check(f, cur) == vbl_count_after_eq(cur, f.vbl_count)

(***************************************************************************)
(* Completion and finalisation callbacks                                    *)
(***************************************************************************)
\* The mutable part of the state a scheduling step works on.
Ctx == [fl |-> flips, sched |-> scheduled_flip, fin |-> finish_list,
        clog |-> <<>>, list |-> flip_list, qlen |-> queue_len,
        refs |-> ring_irq_refcount, wp |-> work_pending]

\* intel_flip_complete: deliver the event, drop the vblank reference
intel_flip_complete(S, id, how) ==
    [S EXCEPT !.fl[id].completes = @ + 1,
              !.clog = Append(@, [id |-> id, pipe |-> S.fl[id].pipe,
                                  plane |-> S.fl[id].plane,
                                  flip_seq |-> S.fl[id].flip_seq,
                                  how |-> how])]

\* A descriptor that has left the synchronizer: nothing reads its pipe,
\* fence or target frame again, what is left is how often it was completed
\* and finished.
PastFlip(f, loc, finishes) ==
    [pipe |-> 0, plane |-> 0, flip_seq |-> 0, ring |-> 0, seqno |-> 0,
     fence_ring |-> 0, vbl_count |-> 0, loc |-> loc,
     completes |-> f.completes, finishes |-> finishes,
     abandoned |-> FALSE]

\* intel_flip_finish + intel_flip_cleanup: release old buffers, kfree
intel_flip_finish(S, id) ==
    [S EXCEPT !.fl[id] = PastFlip(@, "freed", @.finishes + 1)]

\* drm_flip helper: complete a flip and hand it to the finish work
drm_flip_complete(S, id, how) ==
    LET T == intel_flip_complete(S, id, how)
    IN  [T EXCEPT !.fl[id] = PastFlip(@, "finish", @.finishes),
                  !.fin = Append(@, id)]

(***************************************************************************)
(* drm_flip helper entry points used by the driver                          *)
(***************************************************************************)
\* intel_flip_flip: arm the double-buffered registers of flip id; the flip
\* will latch at the vblank after frame count cur
intel_flip_flip(S, id, cur) ==
    [S EXCEPT !.fl[id].vbl_count = cur + 1]

\* first loop of drm_flip_driver_schedule_flips: call the flip hook of every
\* flip of the list.  The hardware frame counter reads cur for the first
\* `miss` flips and cur + 1 for the others (miss = 0: it reads cur for all).
RECURSIVE arm_flips(_, _, _, _, _)
arm_flips(S, list, i, cur, miss) ==
    IF i > Len(list) THEN S
    ELSE LET now == IF miss > 0 /\ i > miss THEN cur + 1 ELSE cur
         IN  arm_flips(intel_flip_flip(S, list[i], now), list, i + 1, cur, miss)

\* second loop of drm_flip_driver_schedule_flips: complete the flip each new
\* flip overrides and make the new flip the helper's scheduled flip
RECURSIVE install_flips(_, _, _)
install_flips(S, list, i) ==
    IF i > Len(list) THEN S
    ELSE LET id  == list[i]
             h   == HelperOf(S.fl[id])
             old == S.sched[h]
             T   == IF old # 0 THEN drm_flip_complete(S, old, "override") ELSE S
         IN  install_flips([T EXCEPT !.sched[h] = id, !.fl[id].loc = "helper"],
                           list, i + 1)

drm_flip_driver_schedule_flips(S, list, cur, miss) ==
    install_flips(arm_flips(S, list, 1, cur, miss), list, 1)

\* drm_flip_driver_complete_flips: the pipe is off, nothing is programmed;
\* first complete what the helpers still hold, then the new flips
RECURSIVE complete_pending(_, _, _)
complete_pending(S, list, i) ==
    IF i > Len(list) THEN S
    ELSE LET h   == HelperOf(S.fl[list[i]])
             old == S.sched[h]
             T   == IF old # 0
                    THEN [drm_flip_complete(S, old, "override") EXCEPT !.sched[h] = 0]
                    ELSE S
         IN  complete_pending(T, list, i + 1)

RECURSIVE complete_new(_, _, _)
complete_new(S, list, i) ==
    IF i > Len(list) THEN S
    ELSE complete_new(drm_flip_complete(S, list[i], "inactive"), list, i + 1)

drm_flip_driver_complete_flips(S, list) ==
    complete_new(complete_pending(S, list, 1), list, 1)

\* drm_flip_helper_vblank: complete the scheduled flip if it has latched
drm_flip_helper_vblank(S, h, cur) ==
    LET id == S.sched[h]
    IN  IF id # 0 /\ intel_vbl_check(S.fl[id], cur)
        THEN [drm_flip_complete(S, id, "vblank") EXCEPT !.sched[h] = 0]
        ELSE S

\* drm_flip_helper_clear: complete the scheduled flip at once
drm_flip_helper_clear(S, h) ==
    LET id == S.sched[h]
    IN  IF id # 0
        THEN [drm_flip_complete(S, id, "clear_helper") EXCEPT !.sched[h] = 0]
        ELSE S

\* intel_atomic_schedule_flips
intel_atomic_schedule_flips(S, p, list, cur, miss) ==
    IF ~crtc_active[p]
    THEN drm_flip_driver_complete_flips(S, list)
    ELSE drm_flip_driver_schedule_flips(S, list, cur, miss)


(***************************************************************************)
(* The flip queue                                                           *)
(***************************************************************************)
\* has the fence the flip was created with signalled
FenceSignaled(f) ==
    IF f.fence_ring = 0 THEN TRUE
    ELSE i915_seqno_passed(ring_seqno[f.fence_ring], f.seqno)

\* flip->ring = NULL; ring->irq_put(ring) when put is set
drop_ring(S, id, put) ==
    LET f == S.fl[id]
    IN  [S EXCEPT !.fl[id].ring = 0,
                  !.fl[id].abandoned = @ \/ ~FenceSignaled(f),
                  !.refs = IF put THEN [@ EXCEPT ![f.ring] = @ - 1] ELSE @]

\* intel_atomic_flips_ready looking at the head of the list only
flips_ready_head_only(fl, list, i, flip_seq) ==
    IF i > Len(list) THEN TRUE ELSE fl[list[i]].ring = 0

\* intel_atomic_flips_ready: all flips at the head of list with flip_seq ready
RECURSIVE intel_atomic_flips_ready(_, _, _, _)
intel_atomic_flips_ready(fl, list, i, flip_seq) ==
    IF i > Len(list) THEN TRUE
    ELSE IF fl[list[i]].flip_seq # flip_seq THEN TRUE
    ELSE IF fl[list[i]].ring # 0 THEN FALSE
    ELSE intel_atomic_flips_ready(fl, list, i + 1, flip_seq)

\* intel_atomic_check_flips_ready: queue the work if the head group is ready
intel_atomic_check_flips_ready(S) ==
    IF S.list = <<>> THEN S
    ELSE IF intel_atomic_flips_ready(S.fl, S.list, 1, S.fl[Head(S.list)].flip_seq)
         THEN [S EXCEPT !.wp = TRUE]
         ELSE S

\* the loop of intel_atomic_notify_ring over flip.list
RECURSIVE notify_flips(_, _, _, _)
notify_flips(S, i, r, seqno) ==
    IF i > Len(S.list) THEN S
    ELSE LET f == S.fl[S.list[i]]
             T == IF f.ring = r /\ i915_seqno_passed(seqno, f.seqno)
                  THEN drop_ring(S, S.list[i], TRUE)
                  ELSE S
         IN  notify_flips(T, i + 1, r, seqno)

\* intel_atomic_notify_ring; seqno is what ring->get_seqno returns
intel_atomic_notify_ring(S, r, seqno) ==
    IF S.list = <<>> THEN S
    ELSE intel_atomic_check_flips_ready(notify_flips(S, 1, r, seqno))

\* the loop of intel_atomic_wedged over flip.list
RECURSIVE wedge_flips(_, _)
wedge_flips(S, i) ==
    IF i > Len(S.list) THEN S
    ELSE wedge_flips(IF S.fl[S.list[i]].ring # 0
                     THEN drop_ring(S, S.list[i], TRUE) ELSE S, i + 1)

\* intel_atomic_wedged queueing the work without giving up the fence waits
wedged_keeps_rings(S) ==
    IF S.list # <<>> THEN [S EXCEPT !.wp = TRUE] ELSE S

\* intel_atomic_wedged
intel_atomic_wedged(S) ==
    LET T == wedge_flips(S, 1)
    IN  IF T.list # <<>> THEN [T EXCEPT !.wp = TRUE] ELSE T

\* the worker moving a single flip instead of the group
group_len_one(fl, list, i, flip_seq) == 1

\* the length of the group at the head of list: flips sharing flip_seq
RECURSIVE group_len(_, _, _, _)
group_len(fl, list, i, flip_seq) ==
    IF i > Len(list) \/ fl[list[i]].flip_seq # flip_seq THEN i - 1
    ELSE group_len(fl, list, i + 1, flip_seq)

\* mark the flips of list as being at place loc
RECURSIVE set_loc(_, _, _, _)
set_loc(fl, list, i, loc) ==
    IF i > Len(list) THEN fl
    ELSE set_loc([fl EXCEPT ![list[i]].loc = loc], list, i + 1, loc)

\* the drop loop of intel_atomic_clear_flips over the cut-off list
RECURSIVE drop_flips(_, _, _)
drop_flips(S, list, i) ==
    IF i > Len(list) THEN S
    ELSE LET id == list[i]
             A  == IF S.fl[id].ring # 0 THEN drop_ring(S, id, TRUE) ELSE S
             B  == intel_flip_complete(A, id, "clear_list")
         IN  drop_flips(intel_flip_finish(B, id), list, i + 1)

\* drm_flip_helper_clear for every plane of the pipe, in plane_list order
RECURSIVE clear_planes(_, _, _)
clear_planes(S, k, p) ==
    IF k > NumPlanes THEN S
    ELSE clear_planes(IF PlanePipe(k) = p
                      THEN drm_flip_helper_clear(S, PlaneHelper(k)) ELSE S,
                      k + 1, p)

\* intel_atomic_clear_flips forgetting the helpers of the pipe's planes
clear_flips_skips_planes(S, p) ==
    LET cut == S.list
        A   == [S EXCEPT !.list = <<>>]
        B   == drm_flip_helper_clear(A, CrtcHelper(p))
    IN  drop_flips(B, cut, 1)

\* intel_atomic_clear_flips dropping the flips without unlinking them
clear_flips_keeps_list(S, p) ==
    LET B == drm_flip_helper_clear(S, CrtcHelper(p))
        C == clear_planes(B, 1, p)
    IN  drop_flips(C, S.list, 1)

\* intel_atomic_clear_flips
intel_atomic_clear_flips(S, p) ==
    LET cut == S.list
        A   == [S EXCEPT !.list = <<>>]
        B   == drm_flip_helper_clear(A, CrtcHelper(p))
        C   == clear_planes(B, 1, p)
    IN  drop_flips(C, cut, 1)

\* drm_flip_helper_vblank for every plane of the pipe, in plane_list order
RECURSIVE vblank_planes(_, _, _, _)
vblank_planes(S, k, p, cur) ==
    IF k > NumPlanes THEN S
    ELSE vblank_planes(IF PlanePipe(k) = p
                       THEN drm_flip_helper_vblank(S, PlaneHelper(k), cur) ELSE S,
                       k + 1, p, cur)

\* intel_atomic_handle_vblank
intel_atomic_handle_vblank(S, p, cur) ==
    vblank_planes(drm_flip_helper_vblank(S, CrtcHelper(p), cur), 1, p, cur)


(***************************************************************************)
(* Actions                                                                  *)
(***************************************************************************)
Store(S) ==
    /\ flips' = S.fl
    /\ scheduled_flip' = S.sched
    /\ finish_list' = S.fin
    /\ complete_log' = S.clog
    /\ flip_list' = S.list
    /\ queue_len' = S.qlen
    /\ ring_irq_refcount' = S.refs
    /\ work_pending' = S.wp

\* the fence a framebuffer object carries: obj->ring and its last seqno
Fences == {[ring |-> 0, seqno |-> 0]} \cup
          {[ring |-> r, seqno |-> n] : r \in Rings, n \in 1 .. MaxSeqno}

\* what intel_atomic_postpone_flip runs into
Outcomes == {"ok", "olr_err", "irq_err"}

\* the objects of pipe p a commit flips: 0 is the crtc itself, k > 0 plane k,
\* in the order atomic_pipe_commit walks them
DirtySets(p) ==
    {<<>>, <<0>>} \cup
    UNION {{<<k>>, <<0, k>>} : k \in {j \in Planes : PlanePipe(j) = p}}

\* kzalloc'ed in alloc_flip_data, filled by atomic_pipe_commit and
\* intel_atomic_flip_init
NewFlip(p, obj, flip_seq, fence) ==
    [pipe |-> p, plane |-> obj, flip_seq |-> flip_seq,
     ring |-> fence.ring, seqno |-> fence.seqno, fence_ring |-> fence.ring,
     vbl_count |-> 0, loc |-> "flips",
     completes |-> 0, finishes |-> 0, abandoned |-> FALSE]

\* intel_atomic_postpone_flip for the flips of list; mask collects rings_mask
RECURSIVE postpone_flips(_, _, _, _, _)
postpone_flips(S, list, i, out, mask) ==
    IF i > Len(list) THEN [S |-> S, mask |-> mask]
    ELSE LET id == list[i]
             f  == S.fl[id]
         IN  IF f.ring = 0
             THEN postpone_flips(S, list, i + 1, out, mask)
             ELSE IF out[i] = "olr_err"
             THEN postpone_flips(drop_ring(S, id, FALSE), list, i + 1, out, mask)
             ELSE IF i915_seqno_passed(ring_seqno[f.ring], f.seqno)
             THEN postpone_flips(drop_ring(S, id, FALSE), list, i + 1, out, mask)
             ELSE IF out[i] = "irq_err"
             THEN postpone_flips(drop_ring(S, id, FALSE), list, i + 1, out, mask)
             ELSE postpone_flips([S EXCEPT !.refs[f.ring] = @ + 1],
                                 list, i + 1, out, mask \cup {f.ring})

\* no object of any pipe is dirty
NoDirty == [p \in Pipes |-> <<>>]

\* the committing thread moves on to the next pipe of apply_nonblocking's loop
NextPipe ==
    IF c_pipe + 1 < NumPipes
    THEN cpc' = "pipe" /\ c_pipe' = c_pipe + 1 /\ UNCHANGED c_dirty
    ELSE cpc' = "idle" /\ c_pipe' = 0 /\ c_dirty' = NoDirty

\* the number of flips a transaction with dirty sets d creates
RECURSIVE NumDirty(_, _)
NumDirty(d, p) == IF p >= NumPipes THEN 0 ELSE Len(d[p]) + NumDirty(d, p + 1)

\* apply_nonblocking: a non-blocking commit of a dirty transaction starts;
\* the caller holds mode_config.mutex until the last pipe is done
apply_nonblocking ==
    /\ cpc = "idle"
    /\ next_flip_seq + NumPipes <= MaxCommits
    /\ \E d \in [Pipes -> UNION {DirtySets(p) : p \in Pipes}] :
         /\ \A p \in Pipes : d[p] \in DirtySets(p)
         /\ NumDirty(d, 0) > 0
         /\ Len(flips) + NumDirty(d, 0) <= MaxFlips
         /\ c_dirty' = d
    /\ cpc' = "pipe"
    /\ c_pipe' = 0
    /\ complete_log' = <<>>
    /\ UNCHANGED <<drm_async_gpu, crtc_active, flips, flip_list, queue_len,
                   next_flip_seq, ring_seqno, ring_irq_refcount, wedged,
                   work_pending, worker_pc, worker_flips, worker_crtc,
                   scheduled_flip, finish_list, vbl_count, vbl_irq,
                   c_flips, c_rings_mask>>
    /\ UNCHANGED <<txnvars, scanvars, dsbvars, auxvars>>

\* the frame-counter boundary a schedule call may straddle when vblank
\* evasion timed out: 0 none, m > 0 after the m-th flip was armed
Misses(p, n) ==
    IF crtc_active[p] /\ vbl_count[p] < MaxVbl THEN 0 .. (n - 1) ELSE {0}

\* the frame counter moves when a schedule call straddles the boundary
Straddle(p, miss) ==
    IF miss > 0
    THEN /\ vbl_count' = [vbl_count EXCEPT ![p] = @ + 1]
         /\ vbl_irq' = [vbl_irq EXCEPT ![p] = TRUE]
    ELSE UNCHANGED <<vbl_count, vbl_irq>>

\* atomic_pipe_commit up to the point where the flips are built; with
\* drm_async_gpu off they are scheduled at once
atomic_pipe_commit_build ==
    /\ cpc = "pipe"
    /\ next_flip_seq' = next_flip_seq + 1
    /\ LET objs == c_dirty[c_pipe]
           n    == Len(objs)
           ids  == [i \in 1 .. n |-> Len(flips) + i]
       IN  \E fen \in [1 .. n -> Fences], out \in [1 .. n -> Outcomes] :
           LET new == [i \in 1 .. n |->
                         NewFlip(c_pipe, objs[i], next_flip_seq, fen[i])]
               S0  == [Ctx EXCEPT !.fl = flips \o new]
           IN
           /\ \A i \in 1 .. n : fen[i].ring = 0 => out[i] = "ok"
           /\ IF n = 0
              THEN /\ Store(S0)
                   /\ NextPipe
                   /\ UNCHANGED <<c_flips, c_rings_mask, vbl_count, vbl_irq>>
              ELSE IF ~drm_async_gpu
              THEN \* pin_fbs has waited for the rendering of every buffer
                   /\ \A i \in 1 .. n : out[i] = "ok"
                   /\ \A i \in 1 .. n : FenceSignaled(new[i])
                   /\ \E miss \in Misses(c_pipe, n) :
                        /\ Store(intel_atomic_schedule_flips(S0, c_pipe, ids,
                                     vbl_count[c_pipe], miss))
                        /\ Straddle(c_pipe, miss)
                   /\ NextPipe
                   /\ UNCHANGED <<c_flips, c_rings_mask>>
              ELSE LET R == postpone_flips(S0, ids, 1, out, {})
                   IN  /\ Store(R.S)
                       /\ c_flips' = ids
                       /\ c_rings_mask' = R.mask
                       /\ cpc' = "enqueue"
                       /\ UNCHANGED <<c_pipe, c_dirty, vbl_count, vbl_irq>>
    /\ UNCHANGED <<drm_async_gpu, crtc_active, ring_seqno, wedged,
                   worker_pc, worker_flips, worker_crtc>>
    /\ UNCHANGED <<txnvars, scanvars, dsbvars, auxvars>>

\* atomic_pipe_commit, under flip.lock: the flips go onto flip.list
atomic_pipe_commit_enqueue ==
    /\ cpc = "enqueue"
    /\ LET A == [Ctx EXCEPT !.list = @ \o c_flips,
                            !.qlen = @ + Len(c_flips),
                            !.fl = set_loc(@, c_flips, 1, "list")]
           B == IF c_rings_mask = {} THEN intel_atomic_check_flips_ready(A) ELSE A
       IN  Store(B)
    /\ c_flips' = <<>>
    /\ IF c_rings_mask = {}
       THEN NextPipe
       ELSE cpc' = "post" /\ UNCHANGED <<c_pipe, c_dirty>>
    /\ UNCHANGED <<drm_async_gpu, crtc_active, next_flip_seq, ring_seqno,
                   wedged, worker_pc, worker_flips, worker_crtc, vbl_count, vbl_irq,
                   c_rings_mask>>
    /\ UNCHANGED <<txnvars, scanvars, dsbvars, auxvars>>

\* atomic_pipe_commit without the double check after the flips were queued
notify_rings_none(S, r, mask) == S

\* intel_atomic_notify_ring for every ring of the mask, in ring order
RECURSIVE notify_rings(_, _, _)
notify_rings(S, r, mask) ==
    IF r > NumRings THEN S
    ELSE notify_rings(IF r \in mask
                      THEN intel_atomic_notify_ring(S, r, ring_seqno[r]) ELSE S,
                      r + 1, mask)

\* atomic_pipe_commit after the locks are dropped: the wedged check and the
\* double check for interrupts that fired before the flips were on the list
atomic_pipe_commit_post ==
    /\ cpc = "post"
    /\ Store(IF wedged THEN intel_atomic_wedged(Ctx)
             ELSE notify_rings(Ctx, 1, c_rings_mask))
    /\ c_rings_mask' = {}
    /\ NextPipe
    /\ UNCHANGED <<drm_async_gpu, crtc_active, next_flip_seq, ring_seqno,
                   wedged, worker_pc, worker_flips, worker_crtc, vbl_count, vbl_irq,
                   c_flips>>
    /\ UNCHANGED <<txnvars, scanvars, dsbvars, auxvars>>

\* the workqueue starts flip.work
worker_start ==
    /\ work_pending
    /\ worker_pc = "idle"
    /\ work_pending' = FALSE
    /\ worker_pc' = "dequeue"
    /\ complete_log' = <<>>
    /\ UNCHANGED <<drm_async_gpu, crtc_active, flips, flip_list, queue_len,
                   next_flip_seq, ring_seqno, ring_irq_refcount, wedged,
                   worker_flips, worker_crtc, scheduled_flip, finish_list,
                   vbl_count, vbl_irq, cpc, c_pipe, c_flips, c_rings_mask,
                   c_dirty>>
    /\ UNCHANGED <<txnvars, scanvars, dsbvars, auxvars>>

\* intel_atomic_process_flips_work, one turn of the loop up to the unlock:
\* take the group at the head of flip.list if all of it is ready
worker_dequeue ==
    /\ worker_pc = "dequeue"
    /\ IF flip_list = <<>>
       THEN /\ worker_pc' = "idle"
            /\ UNCHANGED <<flips, flip_list, queue_len, worker_flips, worker_crtc>>
       ELSE LET head     == flips[Head(flip_list)]
                flip_seq == head.flip_seq
                n        == group_len(flips, flip_list, 1, flip_seq)
            IN  IF intel_atomic_flips_ready(flips, flip_list, 1, flip_seq)
                THEN /\ worker_flips' = SubSeq(flip_list, 1, n)
                     /\ flip_list' = SubSeq(flip_list, n + 1, Len(flip_list))
                     /\ queue_len' = queue_len - n
                     /\ flips' = set_loc(flips, SubSeq(flip_list, 1, n), 1, "work")
                     /\ worker_crtc' = head.pipe
                     /\ worker_pc' = "schedule"
                ELSE /\ worker_pc' = "idle"
                     /\ UNCHANGED <<flips, flip_list, queue_len, worker_flips,
                                    worker_crtc>>
    /\ complete_log' = <<>>
    /\ UNCHANGED <<drm_async_gpu, crtc_active, next_flip_seq, ring_seqno,
                   ring_irq_refcount, wedged, work_pending,
                   scheduled_flip, finish_list, vbl_count, vbl_irq, cpc, c_pipe,
                   c_flips, c_rings_mask, c_dirty>>
    /\ UNCHANGED <<txnvars, scanvars, dsbvars, auxvars>>

\* intel_atomic_process_flips_work, the rest of the turn: under
\* mode_config.mutex hand the group to intel_atomic_schedule_flips
worker_schedule ==
    /\ worker_pc = "schedule"
    /\ cpc = "idle"
    /\ \E miss \in Misses(worker_crtc, Len(worker_flips)) :
         /\ Store(intel_atomic_schedule_flips(Ctx, worker_crtc, worker_flips,
                      vbl_count[worker_crtc], miss))
         /\ Straddle(worker_crtc, miss)
    /\ worker_flips' = <<>>
    /\ worker_crtc' = 0
    /\ worker_pc' = "dequeue"
    /\ UNCHANGED <<drm_async_gpu, crtc_active, next_flip_seq, ring_seqno,
                   wedged, cpc, c_pipe, c_flips, c_rings_mask,
                   c_dirty>>
    /\ UNCHANGED <<txnvars, scanvars, dsbvars, auxvars>>

\* the GPU completes the next request of ring r; the ring's user interrupt
\* is enabled while somebody holds an irq reference, and its handler calls
\* intel_atomic_notify_ring
gpu_advance(r) ==
    /\ ring_seqno[r] < MaxSeqno
    /\ ring_seqno' = [ring_seqno EXCEPT ![r] = @ + 1]
    /\ Store(IF ring_irq_refcount[r] > 0
             THEN intel_atomic_notify_ring(Ctx, r, ring_seqno[r] + 1)
             ELSE Ctx)
    /\ UNCHANGED <<drm_async_gpu, crtc_active, next_flip_seq, wedged,
                   worker_pc, worker_flips, worker_crtc, vbl_count, vbl_irq, cpc,
                   c_pipe, c_flips, c_rings_mask, c_dirty>>
    /\ UNCHANGED <<txnvars, scanvars, dsbvars, auxvars>>

\* the GPU hangs: the error handler marks the device wedged and calls
\* intel_atomic_wedged
gpu_wedged ==
    /\ ~wedged
    /\ wedged' = TRUE
    /\ Store(intel_atomic_wedged(Ctx))
    /\ UNCHANGED <<drm_async_gpu, crtc_active, next_flip_seq, ring_seqno,
                   worker_pc, worker_flips, worker_crtc, vbl_count, vbl_irq, cpc,
                   c_pipe, c_flips, c_rings_mask, c_dirty>>
    /\ UNCHANGED <<txnvars, scanvars, dsbvars, auxvars>>

\* the display reaches the start of vblank on an active pipe: the frame
\* counter increments, armed registers latch, the vblank interrupt is raised
hw_vblank(p) ==
    /\ crtc_active[p]
    /\ vbl_count[p] < MaxVbl
    /\ vbl_count' = [vbl_count EXCEPT ![p] = @ + 1]
    /\ vbl_irq' = [vbl_irq EXCEPT ![p] = TRUE]
    /\ complete_log' = <<>>
    /\ UNCHANGED <<drm_async_gpu, crtc_active, flips, flip_list, queue_len,
                   next_flip_seq, ring_seqno, ring_irq_refcount, wedged,
                   work_pending, worker_pc, worker_flips, worker_crtc,
                   scheduled_flip, finish_list, cpc, c_pipe, c_flips,
                   c_rings_mask, c_dirty>>
    /\ UNCHANGED <<txnvars, scanvars, dsbvars, auxvars>>

\* the vblank interrupt handler calls intel_atomic_handle_vblank
vblank_irq(p) ==
    /\ vbl_irq[p]
    /\ vbl_irq' = [vbl_irq EXCEPT ![p] = FALSE]
    /\ Store(intel_atomic_handle_vblank(Ctx, p, vbl_count[p]))
    /\ UNCHANGED <<drm_async_gpu, crtc_active, next_flip_seq, ring_seqno,
                   wedged, worker_pc, worker_flips, worker_crtc, vbl_count, cpc,
                   c_pipe, c_flips, c_rings_mask, c_dirty>>
    /\ UNCHANGED <<txnvars, scanvars, dsbvars, auxvars>>

\* the pipe is torn down under mode_config.mutex: the crtc disable hook
\* calls intel_atomic_clear_flips and turns the pipe off
crtc_disable(p) ==
    /\ cpc = "idle"
    /\ crtc_active[p]
    /\ Store(intel_atomic_clear_flips(Ctx, p))
    /\ crtc_active' = [crtc_active EXCEPT ![p] = FALSE]
    /\ UNCHANGED <<drm_async_gpu, next_flip_seq, ring_seqno, wedged,
                   worker_pc, worker_flips, worker_crtc, vbl_count, vbl_irq, cpc,
                   c_pipe, c_flips, c_rings_mask, c_dirty>>
    /\ UNCHANGED <<txnvars, scanvars, dsbvars, auxvars>>

\* the pipe is turned on again by a modeset
crtc_enable(p) ==
    /\ cpc = "idle"
    /\ ~crtc_active[p]
    /\ crtc_active' = [crtc_active EXCEPT ![p] = TRUE]
    /\ complete_log' = <<>>
    /\ UNCHANGED <<drm_async_gpu, flips, flip_list, queue_len, next_flip_seq,
                   ring_seqno, ring_irq_refcount, wedged, work_pending,
                   worker_pc, worker_flips, worker_crtc, scheduled_flip,
                   finish_list, vbl_count, vbl_irq, cpc, c_pipe, c_flips,
                   c_rings_mask, c_dirty>>
    /\ UNCHANGED <<txnvars, scanvars, dsbvars, auxvars>>

\* the finish loop of the helper's work over the completed flips
RECURSIVE finish_flips(_, _, _)
finish_flips(S, list, i) ==
    IF i > Len(list) THEN S
    ELSE finish_flips(intel_flip_finish(S, list[i]), list, i + 1)

\* the drm_flip helper's finish work: finish and clean up completed flips
drm_flip_finish_work ==
    /\ finish_list # <<>>
    /\ Store([finish_flips(Ctx, finish_list, 1) EXCEPT !.fin = <<>>])
    /\ UNCHANGED <<drm_async_gpu, crtc_active, next_flip_seq, ring_seqno,
                   wedged, worker_pc, worker_flips, worker_crtc, vbl_count, vbl_irq,
                   cpc, c_pipe, c_flips, c_rings_mask, c_dirty>>
    /\ UNCHANGED <<txnvars, scanvars, dsbvars, auxvars>>

(***************************************************************************)
(* Transactions: intel_atomic_begin / set / check / commit / end, driven   *)
(* by the atomic ioctl under mode_config.mutex.  A connector and the        *)
(* encoder intel_best_encoder gives it are one entry of connector_list:     *)
(* crtc is connector->encoder->crtc, new_crtc is new_encoder->new_crtc      *)
(* (0 for no link, pipe + 1 otherwise) and kdev stands for the rest of the  *)
(* struct drm_connector.  A mode is its hdisplay; cursor_width also stands  *)
(* for cursor_height, which the code treats alike.                          *)
(***************************************************************************)
\* connectors of the device
NumConnectors == 2
\* framebuffer ids
MaxFb == 2
\* display modes
MaxMode == 2
\* property sets per transaction
MaxSets == 2
\* transactions per run
MaxTxns == 1
\* the only cursor size crtc_set and check_crtc accept
CursorSize == 64

Connectors == 1 .. NumConnectors
Fbs == 1 .. MaxFb
Modes == 1 .. MaxMode
PlaneIds == 1 .. (NumPipes + 1)
\* the buffer object behind cursor handle 1
CursorObj == MaxFb + 1
Objs == 1 .. CursorObj
\* devices without sprite planes and devices with more sprite planes than
\* pipes
DevicePlanes == {0, NumPipes + 1}

\* fb->width: framebuffer 1 holds every mode, the others only the smallest
fb_width(fb) == IF fb = 1 THEN MaxMode ELSE 1

NoCrtcState ==
    [changed |-> FALSE, mode_dirty |-> FALSE, fb_dirty |-> FALSE,
     cursor_dirty |-> FALSE, active_dirty |-> FALSE, pinned |-> FALSE,
     cursor_pinned |-> FALSE, flip |-> FALSE, connectors_bitmask |-> {},
     primary_disabled |-> FALSE,
     old |-> [enabled |-> FALSE, mode |-> 0, fb |-> 0, x |-> 0,
              connectors_bitmask |-> {}, cursor_bo |-> 0, cursor_handle |-> 0,
              cursor_width |-> 0]]

NoPlane == [crtc |-> 0, fb |-> 0, crtc_x |-> 0, crtc_w |-> 0]

NoPlaneState ==
    [changed |-> FALSE, dirty |-> FALSE, pinned |-> FALSE, flip |-> FALSE,
     coords |-> [crtc_x |-> 0, crtc_w |-> 0, visible |-> FALSE],
     old |-> NoPlane]

\* the state kzalloc returns, and the value of atomic_state outside a transaction
NoState ==
    [nonblock |-> FALSE, dirty |-> FALSE, restore_state |-> FALSE,
     restore_hw |-> FALSE,
     crtc |-> [p \in Pipes |-> NoCrtcState],
     plane |-> [k \in PlaneIds |-> NoPlaneState],
     saved_connectors |-> <<>>, saved_crtcs |-> <<>>, saved_planes |-> <<>>]

\* what the operators below read and write; budget is the number of pins
\* that still succeed, fail the pipe whose display hook fails
TCtx ==
    [s |-> atomic_state, crtc_list |-> crtc_list, plane_list |-> plane_list,
     connector_list |-> connector_list, pin_count |-> pin_count,
     hw_writes |-> hw_writes, hw |-> hw, flips_queued |-> flips_queued, ret |-> "0",
     budget |-> 0, fail |-> -1]

update_connectors_bitmask(cl, p) == {c \in Connectors : cl[c].new_crtc = p + 1}

intel_crtc_in_use(cl, p) == \E c \in Connectors : cl[c].new_crtc = p + 1

intel_atomic_begin(T, nonblock) ==
    [T EXCEPT !.s =
        [NoState EXCEPT
            !.nonblock = nonblock,
            !.crtc = [p \in Pipes |->
                [NoCrtcState EXCEPT
                    !.connectors_bitmask = update_connectors_bitmask(T.connector_list, p),
                    !.primary_disabled = T.crtc_list[p].primary_disabled,
                    !.old = [enabled |-> T.crtc_list[p].enabled,
                             mode |-> T.crtc_list[p].mode,
                             fb |-> T.crtc_list[p].fb,
                             x |-> T.crtc_list[p].x,
                             connectors_bitmask |->
                                 update_connectors_bitmask(T.connector_list, p),
                             cursor_bo |-> T.crtc_list[p].cursor_bo,
                             cursor_handle |-> 0,
                             cursor_width |-> T.crtc_list[p].cursor_width]]],
            !.plane = [k \in PlaneIds |->
                IF k <= num_plane
                THEN [NoPlaneState EXCEPT !.old = T.plane_list[k]]
                ELSE NoPlaneState],
            !.saved_connectors = T.connector_list,
            !.saved_crtcs = T.crtc_list,
            !.saved_planes = T.plane_list]]

\* ids holds connector ids; an id outside Connectors is unknown
process_connectors(T, p, ids) ==
    IF ~(ids \subseteq Connectors) THEN [T EXCEPT !.ret = "ENOENT"]
    ELSE LET cl == [c \in Connectors |->
                       IF c \in ids
                       THEN [T.connector_list[c] EXCEPT !.new_crtc = p + 1]
                       ELSE IF T.connector_list[c].new_crtc = p + 1
                            THEN [T.connector_list[c] EXCEPT !.new_crtc = 0]
                            ELSE T.connector_list[c]]
         IN  [T EXCEPT !.connector_list = cl,
                       !.s.crtc[p].connectors_bitmask =
                           update_connectors_bitmask(cl, p)]

plane_set(T, k, prop, value) ==
    LET A == [T EXCEPT !.s.plane[k].changed = TRUE]
        B == CASE prop = "crtc_x" -> [A EXCEPT !.plane_list[k].crtc_x = value]
               [] prop = "crtc_w" -> [A EXCEPT !.plane_list[k].crtc_w = value]
               [] prop = "crtc_id" ->
                     IF value = 0 \/ value - 1 \in Pipes
                     THEN [A EXCEPT !.plane_list[k].crtc = value]
                     ELSE [A EXCEPT !.ret = "ENOENT"]
               [] prop = "fb_id" ->
                     IF value = 0 \/ value \in Fbs
                     THEN [A EXCEPT !.plane_list[k].fb = value]
                     ELSE [A EXCEPT !.ret = "ENOENT"]
               [] OTHER -> [A EXCEPT !.ret = "ENOENT"]
    IN  IF B.ret = "0" THEN [B EXCEPT !.s.restore_state = TRUE] ELSE B

\* a mode value of 0 disables the pipe; one outside Modes is a blob of the
\* wrong length or a mode drm_crtc_convert_umode rejects
crtc_set(T, p, prop, value) ==
    LET A == [T EXCEPT !.s.crtc[p].changed = TRUE]
        B == CASE prop = "src_x" -> [A EXCEPT !.crtc_list[p].x = value]
               [] prop = "mode" ->
                     IF value = 0 THEN [A EXCEPT !.crtc_list[p].enabled = FALSE]
                     ELSE IF value \in Modes
                     THEN [A EXCEPT !.crtc_list[p].mode = value,
                                    !.crtc_list[p].enabled = TRUE]
                     ELSE [A EXCEPT !.ret = "EINVAL"]
               [] prop = "fb_id" ->
                     IF value = 0 \/ value \in Fbs
                     THEN [A EXCEPT !.crtc_list[p].fb = value]
                     ELSE [A EXCEPT !.ret = "ENOENT"]
               [] prop = "connector_ids" -> process_connectors(A, p, value)
               [] prop = "cursor_id" ->
                     [A EXCEPT !.crtc_list[p].cursor_handle = value]
               [] prop = "cursor_w" ->
                     IF value # 0 /\ value # CursorSize
                     THEN [A EXCEPT !.ret = "EINVAL"]
                     ELSE [A EXCEPT !.crtc_list[p].cursor_width = value]
               [] OTHER -> [A EXCEPT !.ret = "ENOENT"]
    IN  IF B.ret = "0" THEN [B EXCEPT !.s.restore_state = TRUE] ELSE B

crtc_compute_dirty(T, p) ==
    LET st == T.s.crtc[p]
        crtc == T.crtc_list[p]
        fb_dirty == crtc.x # st.old.x \/ crtc.fb # st.old.fb
        onoff == crtc.enabled # st.old.enabled
        mode_changed == crtc.enabled /\ st.old.enabled /\ crtc.mode # st.old.mode
        sinks == st.connectors_bitmask # st.old.connectors_bitmask
        mode_dirty == onoff \/ mode_changed \/ sinks
        cursor_dirty == \/ crtc.cursor_handle # st.old.cursor_handle
                        \/ crtc.cursor_width # st.old.cursor_width
    IN  IF ~st.changed THEN T
        ELSE [T EXCEPT !.s.crtc[p].fb_dirty = @ \/ fb_dirty,
                       !.s.crtc[p].mode_dirty = @ \/ mode_dirty,
                       !.s.crtc[p].active_dirty = @ \/ onoff \/ mode_changed,
                       !.s.crtc[p].cursor_dirty = @ \/ cursor_dirty,
                       !.s.dirty = @ \/ st.fb_dirty \/ fb_dirty
                                     \/ st.mode_dirty \/ mode_dirty
                                     \/ st.cursor_dirty \/ cursor_dirty]

\* Slot k of the state's plane array.  The array has num_plane entries and
\* the connector snapshot follows it in the same allocation, so a slot
\* beyond num_plane reads the bytes of saved_connectors as a plane state:
\* oob is what those bytes make of it: "clean" (changed reads as zero, or
\* nothing differs), "dirty" (the global dirty flag is set; the byte written
\* through state->dirty already held that value) or "clobber" (as "dirty",
\* and the byte written changes the snapshot of the first connector).
plane_compute_dirty(T, k, oob) ==
    IF k <= num_plane
    THEN LET st == T.s.plane[k] IN
         IF ~st.changed THEN T
         ELSE LET d == st.dirty \/ T.plane_list[k] # st.old
              IN  [T EXCEPT !.s.plane[k].dirty = d, !.s.dirty = @ \/ d]
    ELSE CASE oob = "clean" -> T
           [] oob = "dirty" -> [T EXCEPT !.s.dirty = TRUE]
           [] OTHER -> [T EXCEPT !.s.dirty = TRUE,
                                 !.s.saved_connectors[1].kdev = 1]

RECURSIVE compute_dirty_crtcs(_, _)
compute_dirty_crtcs(T, p) ==
    IF p >= NumPipes THEN T
    ELSE compute_dirty_crtcs(crtc_compute_dirty(T, p), p + 1)

\* the loop over the plane states runs to num_crtc
RECURSIVE compute_dirty_planes(_, _, _)
compute_dirty_planes(T, k, oob) ==
    IF k > NumPipes THEN T
    ELSE compute_dirty_planes(plane_compute_dirty(T, k, oob), k + 1, oob)

\* a variant that marks every plane of the device, whatever pipe it is on
dirty_planes_every(T, p) ==
    [T EXCEPT !.s.plane = [k \in PlaneIds |->
        IF k <= num_plane THEN [@[k] EXCEPT !.dirty = TRUE] ELSE @[k]]]

\* dirty_planes: the planes on a pipe that is reprogrammed are all updated
dirty_planes(T, p) ==
    [T EXCEPT !.s.plane = [k \in PlaneIds |->
        IF k <= num_plane /\ T.plane_list[k].crtc = p + 1
        THEN [@[k] EXCEPT !.dirty = TRUE]
        ELSE @[k]]]

\* fixup is the verdict of the encoders' mode_fixup, intel_crtc_mode_fixup
\* and intel_check_clock; every framebuffer has a supported pixel format
check_crtc(T, p, fixup) ==
    LET crtc == T.crtc_list[p]
        used == intel_crtc_in_use(T.connector_list, p)
    IN  IF crtc.enabled /\ (crtc.fb = 0 \/ ~used) THEN [T EXCEPT !.ret = "EINVAL"]
        ELSE IF ~crtc.enabled /\ (crtc.fb # 0 \/ used) THEN [T EXCEPT !.ret = "EINVAL"]
        ELSE IF crtc.enabled /\ (\/ crtc.mode > fb_width(crtc.fb)
                                 \/ crtc.x > fb_width(crtc.fb) - crtc.mode)
             THEN [T EXCEPT !.ret = "ENOSPC"]
        ELSE IF crtc.cursor_handle # 0 /\ crtc.cursor_width # CursorSize
             THEN [T EXCEPT !.ret = "EINVAL"]
        ELSE IF ~crtc.enabled \/ ~T.s.crtc[p].mode_dirty THEN T
        ELSE [T EXCEPT !.crtc_list[p].hwmode = crtc.mode,
                       !.ret = IF fixup THEN "0" ELSE "EINVAL"]

\* a pipe's mode change passes for a non-blocking transaction
RECURSIVE check_crtcs_blocking(_, _, _)
check_crtcs_blocking(T, p, fixup) ==
    IF p >= NumPipes THEN T
    ELSE LET st == T.s.crtc[p] IN
         IF ~st.fb_dirty /\ ~st.mode_dirty /\ ~st.cursor_dirty
         THEN check_crtcs_blocking(T, p + 1, fixup)
         ELSE LET A == check_crtc(T, p, fixup) IN
              IF A.ret # "0" THEN A
              ELSE check_crtcs_blocking(
                       IF st.active_dirty \/ st.mode_dirty
                       THEN dirty_planes(A, p) ELSE A, p + 1, fixup)

RECURSIVE check_crtcs(_, _, _)
check_crtcs(T, p, fixup) ==
    IF p >= NumPipes THEN T
    ELSE LET st == T.s.crtc[p] IN
         IF ~st.fb_dirty /\ ~st.mode_dirty /\ ~st.cursor_dirty
         THEN check_crtcs(T, p + 1, fixup)
         ELSE IF st.mode_dirty /\ T.s.nonblock THEN [T EXCEPT !.ret = "EAGAIN"]
         ELSE LET A == check_crtc(T, p, fixup) IN
              IF A.ret # "0" THEN A
              ELSE check_crtcs(IF st.active_dirty \/ st.mode_dirty
                               THEN dirty_planes(A, p) ELSE A, p + 1, fixup)

\* clipping against the pipe: nothing shows without a buffer, on a disabled
\* pipe or outside the active area
intel_check_plane(T, k) ==
    LET plane == T.plane_list[k] IN
    /\ plane.crtc # 0
    /\ plane.fb # 0
    /\ T.crtc_list[plane.crtc - 1].enabled
    /\ plane.crtc_w > 0
    /\ plane.crtc_x < T.crtc_list[plane.crtc - 1].mode

update_primary_visibility(T, p, k) ==
    LET plane == T.plane_list[k]
        coords == T.s.plane[k].coords
        primary_disabled == /\ coords.visible
                            /\ coords.crtc_x = 0
                            /\ coords.crtc_w = T.crtc_list[p].mode
    IN  IF primary_disabled # T.crtc_list[p].primary_disabled
        THEN [T EXCEPT !.s.crtc[p].fb_dirty = TRUE,
                       !.s.crtc[p].primary_disabled = primary_disabled,
                       !.s.dirty = TRUE]
        ELSE T

RECURSIVE check_planes(_, _)
check_planes(T, k) ==
    IF k > num_plane THEN T
    ELSE IF ~T.s.plane[k].dirty THEN check_planes(T, k + 1)
    ELSE LET A == [T EXCEPT !.s.plane[k].coords =
                      [crtc_x |-> T.plane_list[k].crtc_x,
                       crtc_w |-> T.plane_list[k].crtc_w,
                       visible |-> intel_check_plane(T, k)]]
             crtc == IF A.plane_list[k].crtc # 0 THEN A.plane_list[k].crtc
                     ELSE A.s.plane[k].old.crtc
         IN  check_planes(IF crtc # 0 THEN update_primary_visibility(A, crtc - 1, k)
                          ELSE A, k + 1)

\* a variant without the test for sinks claimed by two pipes
intel_atomic_check_no_conflict(T, oob, fixup) ==
    LET A == compute_dirty_planes(compute_dirty_crtcs(T, 0), 1, oob) IN
    IF ~A.s.dirty THEN A
    ELSE LET B == check_crtcs(A, 0, fixup) IN
         IF B.ret # "0" THEN B ELSE check_planes(B, 1)

intel_atomic_check(T, oob, fixup) ==
    LET A == compute_dirty_planes(compute_dirty_crtcs(T, 0), 1, oob) IN
    IF ~A.s.dirty THEN A
    ELSE LET B == check_crtcs(A, 0, fixup) IN
         IF B.ret # "0" THEN B
         ELSE IF \E p, q \in Pipes :
                    /\ p < q
                    /\ B.s.crtc[p].connectors_bitmask
                           \cap B.s.crtc[q].connectors_bitmask # {}
              THEN [B EXCEPT !.ret = "EINVAL"]
              ELSE check_planes(B, 1)

\* intel_pin_and_fence_fb_obj and intel_crtc_cursor_prepare: one more pin of
\* the object, unless the budget of pins that succeed is used up
pin_obj(T, obj) ==
    IF T.budget = 0 THEN [T EXCEPT !.ret = "ENOMEM"]
    ELSE [T EXCEPT !.pin_count[obj] = @ + 1, !.budget = @ - 1]

unpin_obj(T, obj) == [T EXCEPT !.pin_count[obj] = @ - 1]

RECURSIVE unpin_fbs_crtcs(_, _)
unpin_fbs_crtcs(T, p) ==
    IF p < 0 THEN T
    ELSE IF ~T.s.crtc[p].pinned THEN unpin_fbs_crtcs(T, p - 1)
    ELSE unpin_fbs_crtcs([unpin_obj(T, T.crtc_list[p].fb)
                             EXCEPT !.s.crtc[p].pinned = FALSE], p - 1)

RECURSIVE unpin_fbs_planes(_, _)
unpin_fbs_planes(T, k) ==
    IF k < 1 THEN T
    ELSE IF ~T.s.plane[k].pinned THEN unpin_fbs_planes(T, k - 1)
    ELSE unpin_fbs_planes([unpin_obj(T, T.plane_list[k].fb)
                              EXCEPT !.s.plane[k].pinned = FALSE], k - 1)

\* unpin_fbs without its second loop: the scanout buffers stay pinned
unpin_fbs_planes_only(T) == unpin_fbs_planes(T, num_plane)

unpin_fbs(T) == unpin_fbs_crtcs(unpin_fbs_planes(T, num_plane), NumPipes - 1)

RECURSIVE pin_fbs_planes(_, _)
pin_fbs_planes(T, k) ==
    IF k > num_plane THEN T
    ELSE IF ~T.s.plane[k].dirty \/ T.plane_list[k].fb = 0
    THEN pin_fbs_planes(T, k + 1)
    ELSE LET A == pin_obj(T, T.plane_list[k].fb) IN
         IF A.ret # "0" THEN unpin_fbs(A)
         ELSE pin_fbs_planes([A EXCEPT !.s.plane[k].pinned = TRUE], k + 1)

RECURSIVE pin_fbs(_, _)
pin_fbs(T, p) ==
    IF p >= NumPipes THEN pin_fbs_planes(T, 1)
    ELSE IF ~T.s.crtc[p].fb_dirty \/ T.crtc_list[p].fb = 0 THEN pin_fbs(T, p + 1)
    ELSE LET A == pin_obj(T, T.crtc_list[p].fb) IN
         IF A.ret # "0" THEN unpin_fbs(A)
         ELSE pin_fbs([A EXCEPT !.s.crtc[p].pinned = TRUE], p + 1)

RECURSIVE unpin_cursors(_, _)
unpin_cursors(T, p) ==
    IF p >= NumPipes THEN T
    ELSE IF ~T.s.crtc[p].cursor_pinned THEN unpin_cursors(T, p + 1)
    ELSE unpin_cursors([unpin_obj(T, T.crtc_list[p].cursor_bo)
                           EXCEPT !.s.crtc[p].cursor_pinned = FALSE], p + 1)

\* intel_crtc_cursor_prepare looks the handle up and pins its object;
\* handle 0 gives no object
RECURSIVE pin_cursors(_, _)
pin_cursors(T, p) ==
    IF p >= NumPipes THEN T
    ELSE IF ~T.s.crtc[p].cursor_dirty THEN pin_cursors(T, p + 1)
    ELSE IF T.crtc_list[p].cursor_handle = 0
    THEN pin_cursors([T EXCEPT !.crtc_list[p].cursor_bo = 0], p + 1)
    ELSE LET A == pin_obj(T, CursorObj) IN
         IF A.ret # "0" THEN unpin_cursors(A, 0)
         ELSE pin_cursors([A EXCEPT !.crtc_list[p].cursor_bo = CursorObj,
                                    !.s.crtc[p].cursor_pinned = TRUE], p + 1)

RECURSIVE unpin_old_cursors(_, _)
unpin_old_cursors(T, p) ==
    IF p >= NumPipes THEN T
    ELSE IF ~T.s.crtc[p].cursor_dirty \/ T.s.crtc[p].old.cursor_bo = 0
    THEN unpin_old_cursors(T, p + 1)
    ELSE unpin_old_cursors(unpin_obj(T, T.s.crtc[p].old.cursor_bo), p + 1)

RECURSIVE unpin_old_fbs_planes(_, _)
unpin_old_fbs_planes(T, k) ==
    IF k > num_plane THEN T
    ELSE IF ~T.s.plane[k].dirty \/ T.s.plane[k].old.fb = 0
    THEN unpin_old_fbs_planes(T, k + 1)
    ELSE unpin_old_fbs_planes(unpin_obj(T, T.s.plane[k].old.fb), k + 1)

RECURSIVE unpin_old_fbs(_, _)
unpin_old_fbs(T, p) ==
    IF p >= NumPipes THEN unpin_old_fbs_planes(T, 1)
    ELSE IF ~T.s.crtc[p].fb_dirty \/ T.s.crtc[p].old.fb = 0
    THEN unpin_old_fbs(T, p + 1)
    ELSE unpin_old_fbs(unpin_obj(T, T.s.crtc[p].old.fb), p + 1)

\* one call of a display hook
hw_write(T) == [T EXCEPT !.hw_writes = @ + 1]

\* display.crtc_disable for every pipe whose mode changes
RECURSIVE crtc_prepare(_, _)
crtc_prepare(T, p) ==
    IF p >= NumPipes THEN T
    ELSE crtc_prepare(IF T.s.crtc[p].mode_dirty
                      THEN [hw_write(T) EXCEPT !.hw.pipe[p].on = FALSE]
                      ELSE T, p + 1)

intel_modeset_commit_output_state(T) ==
    [T EXCEPT !.connector_list =
        [c \in Connectors |-> [@[c] EXCEPT !.crtc = T.connector_list[c].new_crtc]]]

\* display.update_plane of the pipe: the scanout base and pan
crtc_set_base(T, p) ==
    [hw_write(T) EXCEPT !.hw.pipe[p].fb = T.crtc_list[p].fb,
                        !.hw.pipe[p].x = T.crtc_list[p].x]

\* display.off, or display.crtc_mode_set and update_plane, which may fail
RECURSIVE crtc_mode_set(_, _)
crtc_mode_set(T, p) ==
    IF p >= NumPipes THEN T
    ELSE IF ~T.s.crtc[p].mode_dirty THEN crtc_mode_set(T, p + 1)
    ELSE IF ~T.crtc_list[p].enabled
    THEN crtc_mode_set([hw_write(T) EXCEPT !.hw.pipe[p].on = FALSE], p + 1)
    ELSE IF T.fail = p THEN [hw_write(T) EXCEPT !.ret = "EIO"]
    ELSE crtc_mode_set([crtc_set_base(T, p) EXCEPT
                           !.hw.pipe[p].mode = T.crtc_list[p].hwmode], p + 1)

\* display.crtc_enable of an enabled pipe
crtc_commit(T, p) ==
    IF T.crtc_list[p].enabled
    THEN [hw_write(T) EXCEPT !.hw.pipe[p].on = TRUE]
    ELSE T

\* a primary plane that is already on is left alone
intel_enable_primary(T, p) ==
    IF T.crtc_list[p].primary_disabled
    THEN [hw_write(T) EXCEPT !.crtc_list[p].primary_disabled = FALSE,
                             !.hw.pipe[p].primary = TRUE]
    ELSE T

intel_disable_primary(T, p) ==
    IF ~T.crtc_list[p].primary_disabled
    THEN [hw_write(T) EXCEPT !.crtc_list[p].primary_disabled = TRUE,
                             !.hw.pipe[p].primary = FALSE]
    ELSE T

\* the registers of a plane that is off
PlaneOff == [on |-> FALSE, fb |-> 0, crtc_x |-> 0, crtc_w |-> 0]

\* update_plane or disable_plane for the dirty planes of pipe p: a visible
\* plane is programmed with the live plane's buffer and the coordinates the
\* check stored in the transaction
RECURSIVE apply_planes(_, _, _)
apply_planes(T, p, k) ==
    IF k > num_plane THEN T
    ELSE LET pst == T.s.plane[k] IN
         IF pst.dirty /\ pst.coords.visible /\ T.plane_list[k].crtc = p + 1
         THEN apply_planes([hw_write(T) EXCEPT !.hw.plane[k] =
                               [on |-> TRUE, fb |-> T.plane_list[k].fb,
                                crtc_x |-> pst.coords.crtc_x,
                                crtc_w |-> pst.coords.crtc_w]], p, k + 1)
         ELSE IF pst.dirty /\ ~pst.coords.visible /\ pst.old.crtc = p + 1
         THEN apply_planes([hw_write(T) EXCEPT !.hw.plane[k] = PlaneOff], p, k + 1)
         ELSE apply_planes(T, p, k + 1)

RECURSIVE apply_crtcs(_, _)
apply_crtcs(T, p) ==
    IF p >= NumPipes
    THEN [T EXCEPT !.s.dirty = FALSE, !.s.restore_state = FALSE]
    ELSE LET st == T.s.crtc[p]
             A == IF st.mode_dirty THEN crtc_commit(T, p)
                  ELSE IF st.fb_dirty
                  THEN (IF T.fail = p THEN [hw_write(T) EXCEPT !.ret = "EIO"]
                        ELSE crtc_set_base(T, p))
                  ELSE T
             B == IF st.cursor_dirty
                  THEN [hw_write(A) EXCEPT !.hw.pipe[p].cursor =
                                               A.crtc_list[p].cursor_bo]
                  ELSE A
             C == IF ~st.primary_disabled THEN intel_enable_primary(B, p) ELSE B
             D == apply_planes(C, p, 1)
             E == IF st.primary_disabled THEN intel_disable_primary(D, p) ELSE D
         IN  IF A.ret # "0" THEN A ELSE apply_crtcs(E, p + 1)

apply_config(T) ==
    LET A == crtc_mode_set(intel_modeset_commit_output_state(crtc_prepare(T, 0)), 0)
    IN  IF A.ret # "0" THEN A ELSE apply_crtcs(A, 0)

\* the flips alloc_flip_data allocates: one per dirty pipe and dirty plane
alloc_flip_data(T) ==
    [T EXCEPT !.s.crtc = [p \in Pipes |->
                 [@[p] EXCEPT !.flip = \/ T.s.crtc[p].fb_dirty
                                       \/ T.s.crtc[p].mode_dirty
                                       \/ T.s.crtc[p].cursor_dirty]],
              !.s.plane = [k \in PlaneIds |->
                 [@[k] EXCEPT !.flip = T.s.plane[k].dirty]]]

free_flip_data(T) ==
    [T EXCEPT !.s.crtc = [p \in Pipes |-> [@[p] EXCEPT !.flip = FALSE]],
              !.s.plane = [k \in PlaneIds |-> [@[k] EXCEPT !.flip = FALSE]]]

\* atomic_pipe_commit of every pipe takes the flip of each pipe with a dirty
\* buffer or cursor and of each dirty plane on a pipe, and copies the pipe's
\* primary_disabled; the flips then travel through the flip queue
txn_apply_nonblocking(T) ==
    LET taken == {<<"crtc", p>> : p \in {q \in Pipes :
                      T.s.crtc[q].fb_dirty \/ T.s.crtc[q].cursor_dirty}}
                 \cup {<<"plane", k>> : k \in {j \in PlaneIds :
                      j <= num_plane /\ T.s.plane[j].dirty}}
    IN  [T EXCEPT !.flips_queued = taken,
                  !.crtc_list = [p \in Pipes |->
                      IF <<"crtc", p>> \in taken
                      THEN [@[p] EXCEPT !.primary_disabled =
                                            T.s.crtc[p].primary_disabled]
                      ELSE @[p]],
                  !.s.crtc = [p \in Pipes |->
                      IF <<"crtc", p>> \in taken
                      THEN [@[p] EXCEPT !.flip = FALSE] ELSE @[p]],
                  !.s.plane = [k \in PlaneIds |->
                      IF <<"plane", k>> \in taken
                      THEN [@[k] EXCEPT !.flip = FALSE] ELSE @[k]],
                  !.s.dirty = FALSE,
                  !.s.restore_state = FALSE]

intel_atomic_commit(T) ==
    LET A == alloc_flip_data(T) IN
    IF ~A.s.dirty THEN A
    ELSE LET B == pin_fbs(A, 0) IN
         IF B.ret # "0" THEN B
         ELSE LET C == pin_cursors(B, 0) IN
              IF C.ret # "0" THEN C
              ELSE IF C.s.nonblock THEN txn_apply_nonblocking(C)
              ELSE LET D == apply_config(C) IN
                   IF D.ret # "0"
                   THEN [unpin_fbs(unpin_cursors(D, 0)) EXCEPT !.s.restore_hw = TRUE]
                   ELSE unpin_old_fbs(unpin_old_cursors(D, 0), 0)

\* every live object is overwritten with its snapshot, the staged links are
\* recomputed from the restored ones, and the old state is programmed again
\* if the hardware was touched
restore_state(T) ==
    LET A == [T EXCEPT
                 !.connector_list = [c \in Connectors |->
                     [T.s.saved_connectors[c] EXCEPT
                         !.new_crtc = T.s.saved_connectors[c].crtc]],
                 !.crtc_list = T.s.saved_crtcs,
                 !.plane_list = T.s.saved_planes]
    IN  IF A.s.restore_hw THEN [apply_config(A) EXCEPT !.ret = T.ret] ELSE A

intel_atomic_end(T) ==
    LET A == free_flip_data(T) IN
    [(IF A.s.restore_state THEN restore_state(A) ELSE A) EXCEPT !.s = NoState]

TStore(T) ==
    /\ atomic_state' = T.s
    /\ crtc_list' = T.crtc_list
    /\ plane_list' = T.plane_list
    /\ connector_list' = T.connector_list
    /\ pin_count' = T.pin_count
    /\ hw_writes' = T.hw_writes
    /\ hw' = T.hw
    /\ flips_queued' = T.flips_queued
    /\ ret' = T.ret

Objects == [crtc_list |-> crtc_list, plane_list |-> plane_list,
            connector_list |-> connector_list, pin_count |-> pin_count,
            hw |-> hw]

\* the registers as the boot-time or previous commit left them for the live
\* objects cl (pipes) and pl (planes)
HwOf(cl, pl) ==
    [pipe |-> [p \in Pipes |->
                 [on |-> cl[p].enabled, mode |-> cl[p].hwmode, fb |-> cl[p].fb,
                  x |-> cl[p].x, cursor |-> cl[p].cursor_bo,
                  primary |-> ~cl[p].primary_disabled]],
     plane |-> [k \in PlaneIds |->
                 IF pl[k].crtc # 0 /\ pl[k].fb # 0
                 THEN [on |-> TRUE, fb |-> pl[k].fb, crtc_x |-> pl[k].crtc_x,
                       crtc_w |-> pl[k].crtc_w]
                 ELSE PlaneOff]]

\* the property values a client passes: valid ones and one invalid of each kind
CrtcProps ==
    ({"src_x"} \X {0, 1})
    \cup ({"mode"} \X (0 .. MaxMode + 1))
    \cup ({"fb_id"} \X (0 .. MaxFb + 1))
    \cup ({"connector_ids"} \X SUBSET (1 .. NumConnectors + 1))
    \cup ({"cursor_id"} \X {0, 1})
    \cup ({"cursor_w"} \X {0, CursorSize, CursorSize + 1})

PlaneProps ==
    ({"crtc_x"} \X {0, 1})
    \cup ({"crtc_w"} \X (0 .. MaxMode))
    \cup ({"crtc_id"} \X (0 .. NumPipes + 1))
    \cup ({"fb_id"} \X (0 .. MaxFb + 1))

\* drm_mode_atomic_ioctl: begin
ioctl_begin ==
    /\ tpc = "idle"
    /\ ntxn < MaxTxns
    /\ \E nonblock \in BOOLEAN :
         TStore([intel_atomic_begin(TCtx, nonblock) EXCEPT !.hw_writes = 0,
                                                           !.flips_queued = {}])
    /\ tpc' = "open"
    /\ nsets' = 0
    /\ ntxn' = ntxn + 1
    /\ begin_objs' = Objects
    /\ UNCHANGED <<num_plane, flipvars, scanvars, dsbvars, auxvars>>

\* one property of a pipe is set; an error ends the ioctl
ioctl_set_crtc ==
    /\ tpc = "open"
    /\ nsets < MaxSets
    /\ \E p \in Pipes, pv \in CrtcProps :
         LET T == crtc_set(TCtx, p, pv[1], pv[2]) IN
         /\ TStore(T)
         /\ tpc' = IF T.ret = "0" THEN "open" ELSE "set_failed"
    /\ nsets' = nsets + 1
    /\ UNCHANGED <<num_plane, ntxn, begin_objs, flipvars, scanvars, dsbvars, auxvars>>

\* one property of a plane is set; an error ends the ioctl
ioctl_set_plane ==
    /\ tpc = "open"
    /\ nsets < MaxSets
    /\ \E k \in PlaneIds, pv \in PlaneProps :
         /\ k <= num_plane
         /\ LET T == plane_set(TCtx, k, pv[1], pv[2]) IN
            /\ TStore(T)
            /\ tpc' = IF T.ret = "0" THEN "open" ELSE "set_failed"
    /\ nsets' = nsets + 1
    /\ UNCHANGED <<num_plane, ntxn, begin_objs, flipvars, scanvars, dsbvars, auxvars>>

ioctl_check ==
    /\ tpc = "open"
    /\ \E oob \in {"clean", "dirty", "clobber"}, fixup \in BOOLEAN :
         LET T == intel_atomic_check(TCtx, oob, fixup) IN
         /\ TStore(T)
         /\ tpc' = IF T.ret = "0" THEN "checked" ELSE "check_failed"
    /\ UNCHANGED <<num_plane, nsets, ntxn, begin_objs, flipvars, scanvars, dsbvars, auxvars>>

ioctl_commit ==
    /\ tpc = "checked"
    /\ \E budget \in 0 .. MaxSets + 1, fail \in {-1} \cup Pipes :
         LET T == intel_atomic_commit([TCtx EXCEPT !.budget = budget,
                                                   !.fail = fail]) IN
         /\ TStore(T)
         /\ tpc' = IF T.ret = "0" THEN "committed" ELSE "commit_failed"
    /\ UNCHANGED <<num_plane, nsets, ntxn, begin_objs, flipvars, scanvars, dsbvars, auxvars>>

ioctl_end ==
    /\ tpc \in {"set_failed", "check_failed", "commit_failed", "committed"}
    /\ TStore([intel_atomic_end(TCtx) EXCEPT !.ret = ret])
    /\ tpc' = "idle"
    /\ UNCHANGED <<num_plane, nsets, ntxn, begin_objs, flipvars, scanvars, dsbvars, auxvars>>

\* every pipe off, nothing pinned, no transaction open
TxnIdle ==
    /\ num_plane = 0
    /\ crtc_list = [p \in Pipes |->
           [enabled |-> FALSE, mode |-> 0, hwmode |-> 0, fb |-> 0, x |-> 0,
            cursor_bo |-> 0, cursor_handle |-> 0, cursor_width |-> 0,
            primary_disabled |-> FALSE]]
    /\ plane_list = [k \in PlaneIds |-> NoPlane]
    /\ connector_list = [c \in Connectors |-> [crtc |-> 0, new_crtc |-> 0, kdev |-> 0]]
    /\ atomic_state = NoState
    /\ tpc = "idle"
    /\ ret = "0"
    /\ hw_writes = 0
    /\ hw = HwOf(crtc_list, plane_list)
    /\ pin_count = [o \in Objs |-> 0]
    /\ flips_queued = {}
    /\ nsets = 0
    /\ ntxn = 0
    /\ begin_objs = Objects

\* pipe 0 shows framebuffer 1 on connector 1, with or without a cursor;
\* pipe 1 is off or shows the last framebuffer on connector 2; on a device
\* with sprite planes plane 1 is off or shows the last framebuffer on pipe 0,
\* wider than the pipe's active area
TxnInit ==
    /\ num_plane \in DevicePlanes
    /\ \E cursor, second, sprite \in BOOLEAN :
         /\ sprite => num_plane >= 1
         /\ crtc_list = [p \in Pipes |->
               IF p = 0
               THEN [enabled |-> TRUE, mode |-> 1, hwmode |-> 1,
                     fb |-> 1, x |-> 0,
                     cursor_bo |-> IF cursor THEN CursorObj ELSE 0,
                     cursor_handle |-> IF cursor THEN 1 ELSE 0,
                     cursor_width |-> IF cursor THEN CursorSize ELSE 0,
                     primary_disabled |-> FALSE]
               ELSE IF p = 1 /\ second
               THEN [enabled |-> TRUE, mode |-> 1, hwmode |-> 1, fb |-> MaxFb,
                     x |-> 0, cursor_bo |-> 0, cursor_handle |-> 0,
                     cursor_width |-> 0, primary_disabled |-> FALSE]
               ELSE [enabled |-> FALSE, mode |-> 0, hwmode |-> 0, fb |-> 0,
                     x |-> 0, cursor_bo |-> 0, cursor_handle |-> 0,
                     cursor_width |-> 0, primary_disabled |-> FALSE]]
         /\ connector_list = [c \in Connectors |->
               IF c = 1 \/ (c = 2 /\ second)
               THEN [crtc |-> c, new_crtc |-> c, kdev |-> 0]
               ELSE [crtc |-> 0, new_crtc |-> 0, kdev |-> 0]]
         /\ plane_list = [k \in PlaneIds |->
               IF k = 1 /\ sprite
               THEN [crtc |-> 1, fb |-> MaxFb, crtc_x |-> 0, crtc_w |-> MaxMode]
               ELSE NoPlane]
         /\ pin_count = [o \in Objs |->
               (IF o = 1 THEN 1 ELSE 0)
               + (IF o = MaxFb /\ second THEN 1 ELSE 0)
               + (IF o = MaxFb /\ sprite THEN 1 ELSE 0)
               + (IF o = CursorObj /\ cursor THEN 1 ELSE 0)]
    /\ atomic_state = NoState
    /\ tpc = "idle"
    /\ ret = "0"
    /\ hw_writes = 0
    /\ hw = HwOf(crtc_list, plane_list)
    /\ flips_queued = {}
    /\ nsets = 0
    /\ ntxn = 0
    /\ begin_objs = Objects

TxnNext ==
    \/ ioctl_begin
    \/ ioctl_set_crtc
    \/ ioctl_set_plane
    \/ ioctl_check
    \/ ioctl_commit
    \/ ioctl_end

(***************************************************************************)
(* Scanout buffers: which buffer each flip pins and releases, and which    *)
(* buffer the display reads.  One pipe with its primary plane (object 0)    *)
(* and one sprite plane (object 1); the flip queue is a list of groups that *)
(* are scheduled in order.                                                  *)
(***************************************************************************)
\* framebuffer objects
NumBos == 2
\* bound on the number of flips created in a run
ScanFlips == 3
\* bound on the frame counter
ScanVbl == 2

Bos == 1 .. NumBos
\* object 0 is the crtc's primary plane, object 1 the sprite plane
ScanObjs == {0, 1}

\* the part of the state the helper callbacks work on
SCtx == [fl |-> scan_flips, sched |-> scan_sched, fin |-> scan_finish,
         pin |-> scan_pin, surf |-> surf, surflive |-> surflive]

SStore(S) ==
    /\ scan_flips' = S.fl
    /\ scan_sched' = S.sched
    /\ scan_finish' = S.fin
    /\ scan_pin' = S.pin
    /\ surf' = S.surf
    /\ surflive' = S.surflive

\* a flip that was finished and freed
FreedFlip == [obj |-> 0, bo |-> 0, old_bo |-> 0, vbl_count |-> 0, loc |-> "freed"]

\* intel_atomic_flip_init: the flip shows fb and, when the buffer changed,
\* carries the buffer shown before so that finish can unpin it
scan_flip_init(obj, fb, unpin_old_fb, old_fb) ==
    [obj |-> obj, bo |-> fb,
     old_bo |-> IF unpin_old_fb THEN old_fb ELSE 0,
     vbl_count |-> 0, loc |-> "queue"]

\* intel_flip_flip without the exchange of old buffers
scan_flip_flip_no_swap(S, id, cur) ==
    [S EXCEPT !.fl[id].vbl_count = cur + 1,
              !.surf[S.fl[id].obj] = S.fl[id].bo]

\* intel_flip_flip: write the surface register; the flip is expected to
\* latch at the vblank after count cur.  If the helper still holds a flip
\* that has not latched by count cur, the two exchange their old buffers.
scan_flip_flip(S, id, cur) ==
    LET o       == S.fl[id].obj
        pending == S.sched[o]
        A       == [S EXCEPT !.fl[id].vbl_count = cur + 1,
                             !.surf[o] = S.fl[id].bo]
    IN  IF pending # 0 /\ ~vbl_count_after_eq(cur, S.fl[pending].vbl_count)
        THEN [A EXCEPT !.fl[id].old_bo = S.fl[pending].old_bo,
                       !.fl[pending].old_bo = S.fl[id].old_bo]
        ELSE A

\* intel_flip_finish and intel_flip_cleanup: unpin old_bo, free the flip
scan_flip_finish(S, id) ==
    LET b == S.fl[id].old_bo
    IN  [S EXCEPT !.pin = IF b # 0 THEN [@ EXCEPT ![b] = @ - 1] ELSE @,
                  !.fl[id] = FreedFlip]

\* drm_flip helper: a completed flip goes to the finish work
scan_flip_complete(S, id) ==
    [S EXCEPT !.fl[id].loc = "finish", !.fin = Append(@, id)]

\* start of vblank: the surface registers written so far latch
scan_latch(S) == [S EXCEPT !.surflive = S.surf]

\* first loop of drm_flip_driver_schedule_flips; the vblank starts after the
\* first `miss` flips were armed (miss = 0: it does not start)
RECURSIVE scan_arm_flips(_, _, _, _, _)
scan_arm_flips(S, list, i, cur, miss) ==
    IF i > Len(list) THEN S
    ELSE LET now == IF miss > 0 /\ i > miss THEN cur + 1 ELSE cur
             A   == IF miss > 0 /\ i = miss + 1 THEN scan_latch(S) ELSE S
         IN  scan_arm_flips(scan_flip_flip(A, list[i], now), list, i + 1, cur, miss)

\* second loop of drm_flip_driver_schedule_flips
RECURSIVE scan_install_flips(_, _, _)
scan_install_flips(S, list, i) ==
    IF i > Len(list) THEN S
    ELSE LET id  == list[i]
             o   == S.fl[id].obj
             old == S.sched[o]
             T   == IF old # 0 THEN scan_flip_complete(S, old) ELSE S
         IN  scan_install_flips([T EXCEPT !.sched[o] = id, !.fl[id].loc = "helper"],
                                list, i + 1)

\* drm_flip_driver_complete_flips: what the helpers hold, then the new flips
RECURSIVE scan_complete_pending(_, _, _)
scan_complete_pending(S, list, i) ==
    IF i > Len(list) THEN S
    ELSE LET o   == S.fl[list[i]].obj
             old == S.sched[o]
             T   == IF old # 0
                    THEN [scan_flip_complete(S, old) EXCEPT !.sched[o] = 0]
                    ELSE S
         IN  scan_complete_pending(T, list, i + 1)

RECURSIVE scan_complete_new(_, _, _)
scan_complete_new(S, list, i) ==
    IF i > Len(list) THEN S
    ELSE scan_complete_new(scan_flip_complete(S, list[i]), list, i + 1)

\* intel_atomic_schedule_flips
scan_schedule_flips(S, list, cur, miss) ==
    IF ~scan_active
    THEN scan_complete_new(scan_complete_pending(S, list, 1), list, 1)
    ELSE scan_install_flips(scan_arm_flips(S, list, 1, cur, miss), list, 1)

\* the objects a commit flips, in the order atomic_pipe_commit walks them
ScanDirty == {<<0>>, <<1>>, <<0, 1>>}

\* pin_fbs, then atomic_pipe_commit up to the point where the flips are on
\* the queue: a crtc flip changes the buffer (fb_dirty) or only the cursor,
\* a plane flip always counts as a buffer change
scan_commit ==
    /\ \E d \in ScanDirty, fb_dirty \in BOOLEAN, new \in [ScanObjs -> Bos] :
         LET n       == Len(d)
             ids     == [i \in 1 .. n |-> Len(scan_flips) + i]
             chg(o)  == o # 0 \/ fb_dirty
             fb(o)   == IF chg(o) THEN new[o] ELSE scan_fb[o]
             pins(b) == Cardinality({i \in 1 .. n : chg(d[i]) /\ new[d[i]] = b})
         IN  /\ Len(scan_flips) + n <= ScanFlips
             /\ scan_pin' = [b \in Bos |-> scan_pin[b] + pins(b)]
             /\ scan_flips' = scan_flips \o
                    [i \in 1 .. n |->
                       scan_flip_init(d[i], fb(d[i]), chg(d[i]), scan_fb[d[i]])]
             /\ scan_fb' = [o \in ScanObjs |->
                              IF \E i \in 1 .. n : d[i] = o THEN fb(o)
                              ELSE scan_fb[o]]
             /\ scan_queue' = Append(scan_queue, ids)
    /\ UNCHANGED <<scan_active, scan_sched, scan_finish, surf, surflive,
                   frmcount, frm_irq>>
    /\ UNCHANGED <<flipvars, txnvars, dsbvars, auxvars>>

\* the group at the head of the queue is handed to
\* intel_atomic_schedule_flips, directly or by the worker
scan_schedule ==
    /\ scan_queue # <<>>
    /\ LET list == Head(scan_queue)
       IN  \E miss \in (IF scan_active /\ frmcount < ScanVbl
                        THEN 0 .. (Len(list) - 1) ELSE {0}) :
             /\ SStore(scan_schedule_flips(SCtx, list, frmcount, miss))
             /\ IF miss > 0
                THEN frmcount' = frmcount + 1 /\ frm_irq' = TRUE
                ELSE UNCHANGED <<frmcount, frm_irq>>
    /\ scan_queue' = Tail(scan_queue)
    /\ UNCHANGED <<scan_active, scan_fb>>
    /\ UNCHANGED <<flipvars, txnvars, dsbvars, auxvars>>

\* the display reaches the start of vblank
scan_hw_vblank ==
    /\ scan_active
    /\ frmcount < ScanVbl
    /\ frmcount' = frmcount + 1
    /\ frm_irq' = TRUE
    /\ surflive' = surf
    /\ UNCHANGED <<scan_active, scan_fb, scan_pin, scan_flips, scan_queue,
                   scan_sched, scan_finish, surf>>
    /\ UNCHANGED <<flipvars, txnvars, dsbvars, auxvars>>

\* drm_flip_helper_vblank with intel_flip_vblank
scan_helper_vblank(S, o, cur) ==
    LET id == S.sched[o]
    IN  IF id # 0 /\ vbl_count_after_eq(cur, S.fl[id].vbl_count)
        THEN [scan_flip_complete(S, id) EXCEPT !.sched[o] = 0]
        ELSE S

\* intel_atomic_handle_vblank
scan_vblank_irq ==
    /\ frm_irq
    /\ frm_irq' = FALSE
    /\ SStore(scan_helper_vblank(scan_helper_vblank(SCtx, 0, frmcount), 1, frmcount))
    /\ UNCHANGED <<scan_active, scan_fb, scan_queue, frmcount>>
    /\ UNCHANGED <<flipvars, txnvars, dsbvars, auxvars>>

RECURSIVE scan_finish_flips(_, _, _)
scan_finish_flips(S, list, i) ==
    IF i > Len(list) THEN S
    ELSE scan_finish_flips(scan_flip_finish(S, list[i]), list, i + 1)

\* the drm_flip helper's finish work
scan_finish_work ==
    /\ scan_finish # <<>>
    /\ SStore([scan_finish_flips(SCtx, scan_finish, 1) EXCEPT !.fin = <<>>])
    /\ UNCHANGED <<scan_active, scan_fb, scan_queue, frmcount, frm_irq>>
    /\ UNCHANGED <<flipvars, txnvars, dsbvars, auxvars>>

\* the flips of the queue, oldest first
RECURSIVE ScanQueued(_)
ScanQueued(q) == IF q = <<>> THEN <<>> ELSE Head(q) \o ScanQueued(Tail(q))

\* the pipe is torn down: intel_atomic_clear_flips completes what the
\* helpers hold and completes and finishes the flips of the queue; the
\* planes are off afterwards
scan_crtc_disable ==
    /\ scan_active
    /\ LET A == IF SCtx.sched[0] # 0
                THEN [scan_flip_complete(SCtx, SCtx.sched[0]) EXCEPT !.sched[0] = 0]
                ELSE SCtx
           B == IF A.sched[1] # 0
                THEN [scan_flip_complete(A, A.sched[1]) EXCEPT !.sched[1] = 0]
                ELSE A
           C == scan_finish_flips(B, ScanQueued(scan_queue), 1)
       IN  SStore([C EXCEPT !.surflive = [o \in ScanObjs |-> 0]])
    /\ scan_queue' = <<>>
    /\ scan_active' = FALSE
    /\ UNCHANGED <<scan_fb, frmcount, frm_irq>>
    /\ UNCHANGED <<flipvars, txnvars, dsbvars, auxvars>>

\* a modeset turns the pipe on again: the planes show the live buffers
scan_crtc_enable ==
    /\ ~scan_active
    /\ scan_active' = TRUE
    /\ surf' = scan_fb
    /\ surflive' = scan_fb
    /\ UNCHANGED <<scan_fb, scan_pin, scan_flips, scan_queue, scan_sched,
                   scan_finish, frmcount, frm_irq>>
    /\ UNCHANGED <<flipvars, txnvars, dsbvars, auxvars>>

\* no flip exists; outside the scanout model nothing else ever does
ScanIdle ==
    /\ scan_active = FALSE
    /\ scan_fb = [o \in ScanObjs |-> 1]
    /\ scan_pin = [b \in Bos |-> IF b = 1 THEN 2 ELSE 0]
    /\ scan_flips = <<>>
    /\ scan_queue = <<>>
    /\ scan_sched = [o \in ScanObjs |-> 0]
    /\ scan_finish = <<>>
    /\ surf = [o \in ScanObjs |-> 1]
    /\ surflive = [o \in ScanObjs |-> 0]
    /\ frmcount = 0
    /\ frm_irq = FALSE

\* each plane shows a pinned buffer of its own choice, on a pipe that is on
\* or off
ScanInit ==
    /\ scan_active \in BOOLEAN
    /\ scan_fb \in [ScanObjs -> Bos]
    /\ scan_pin = [b \in Bos |-> Cardinality({o \in ScanObjs : scan_fb[o] = b})]
    /\ scan_flips = <<>>
    /\ scan_queue = <<>>
    /\ scan_sched = [o \in ScanObjs |-> 0]
    /\ scan_finish = <<>>
    /\ surf = scan_fb
    /\ surflive = IF scan_active THEN scan_fb ELSE [o \in ScanObjs |-> 0]
    /\ frmcount = 0
    /\ frm_irq = FALSE

ScanNext ==
    \/ scan_commit
    \/ scan_schedule
    \/ scan_hw_vblank
    \/ scan_vblank_irq
    \/ scan_finish_work
    \/ scan_crtc_disable
    \/ scan_crtc_enable

(***************************************************************************)
(* The DSB command buffer (intel_dsb.c): emitting instructions, handing    *)
(* the buffer to the sequencer and waiting for it                          *)
(***************************************************************************)

DsbMaxCmds == 2         \* max_cmds asked of intel_dsb_prepare
DsbMaxOps == 4          \* calls made on the DSB
NumDsbRegs == 2         \* registers the caller programs
MaxVal == 2             \* values written
MaxVtotal == 4          \* lines of the longest mode
WaitPolls == 2          \* polls of wait_for before its 1 ms have passed

CACHELINE_BYTES == 64
DSB_OPCODE_SHIFT == 24
DSB_OPCODE_NOOP == 0
DSB_OPCODE_MMIO_WRITE == 1
DSB_BYTE_EN == 15
DSB_BYTE_EN_SHIFT == 20
DSB_REG_VALUE_MASK == 1048575
DSB_OPCODE_WAIT_SCANLINE == 3
DSB_OPCODE_INDEXED_WRITE == 9

\* register offsets of the sequencer's own power-management registers
DSB_PMCTRL == 100
DSB_PMCTRL_2 == 101
\* where the buffer is mapped for the sequencer: a page boundary
intel_dsb_buffer_ggtt_offset == 4096

DsbRegs == 1..NumDsbRegs
DsbVals == 1..MaxVal
\* a u32 mask, as its four bytes from the most significant down
DsbMasks == {<<0, 0, 0, 255>>, <<255, 255, 255, 255>>}
DSB_FORCE_DEWAKE == <<0, 128, 0, 0>>
\* intel_crtc_scanline_offset() of the pipes that have a DSB
ScanlineOffsets == {1, 2}
\* what the pages of a fresh buffer may hold: zeroes, or words that read as
\* a register write
DsbJunk == {0, DSB_OPCODE_MMIO_WRITE * 2^DSB_OPCODE_SHIFT
               + DSB_BYTE_EN * 2^DSB_BYTE_EN_SHIFT + 1}

ALIGN(x, a) == ((x + a - 1) \div a) * a
IS_ALIGNED(x, a) == x % a = 0

\* C's %: the remainder takes the sign of the dividend
CRem(a, b) == IF a >= 0 THEN a % b ELSE 0 - ((0 - a) % b)

\* w & DSB_REG_VALUE_MASK and w & ~DSB_REG_VALUE_MASK
RegBits(w) == w % (DSB_REG_VALUE_MASK + 1)
OpcodeBits(w) == w - RegBits(w)

\* oob: a word was written at an index the buffer does not have
DCtx == [buf |-> dsb_buf, size |-> dsb_size, free_pos |-> free_pos,
         ins_start_offset |-> ins_start_offset, prog |-> dsb_prog,
         starts |-> dsb_starts, oob |-> FALSE]

DStore(D) ==
    /\ dsb_buf' = D.buf
    /\ dsb_size' = D.size
    /\ free_pos' = D.free_pos
    /\ ins_start_offset' = D.ins_start_offset
    /\ dsb_prog' = D.prog
    /\ dsb_starts' = D.starts

intel_dsb_buffer_read(D, idx) ==
    IF idx \in DOMAIN D.buf THEN D.buf[idx] ELSE 0

intel_dsb_buffer_write(D, idx, val) ==
    IF idx \in DOMAIN D.buf THEN [D EXCEPT !.buf[idx] = val]
    ELSE [D EXCEPT !.oob = TRUE]

\* the instruction two words stand for: opcode, the rest of the upper word,
\* and the lower word
Ins(ldw, udw) ==
    [op |-> udw \div 2^DSB_OPCODE_SHIFT, arg |-> udw % 2^DSB_OPCODE_SHIFT,
     val |-> ldw]

\* a test that lets the last instruction start at the end of the buffer
assert_dsb_has_room_late(D) == ~(D.free_pos > D.size)

assert_dsb_has_room(D) == ~(D.free_pos > D.size - 2)

intel_dsb_emit_unaligned(D, ldw, udw) ==
    IF ~assert_dsb_has_room(D) THEN D
    ELSE LET D1 == [D EXCEPT !.ins_start_offset = D.free_pos,
                             !.starts = Append(@, D.free_pos),
                             !.prog = Append(@, Ins(ldw, udw))]
             D2 == intel_dsb_buffer_write(D1, D.free_pos, ldw)
             D3 == intel_dsb_buffer_write(D2, D.free_pos + 1, udw)
         IN  [D3 EXCEPT !.free_pos = D.free_pos + 2]

intel_dsb_emit(D, ldw, udw) ==
    IF ~assert_dsb_has_room(D) THEN D
    ELSE LET pos == ALIGN(D.free_pos, 2)
             D1 == [D EXCEPT !.ins_start_offset = pos,
                             !.starts = Append(@, pos),
                             !.prog = Append(@, Ins(ldw, udw))]
             D2 == intel_dsb_buffer_write(D1, pos, ldw)
             D3 == intel_dsb_buffer_write(D2, pos + 1, udw)
         IN  [D3 EXCEPT !.free_pos = pos + 2]

intel_dsb_prev_ins_is_write_unguarded(D, opcode, reg) ==
    LET w == intel_dsb_buffer_read(D, D.ins_start_offset + 1)
    IN  OpcodeBits(w) = opcode /\ RegBits(w) = reg

intel_dsb_prev_ins_is_write(D, opcode, reg) ==
    IF D.free_pos = 0 THEN FALSE
    ELSE LET w == intel_dsb_buffer_read(D, D.ins_start_offset + 1)
         IN  OpcodeBits(w) = opcode /\ RegBits(w) = reg

\* a test that takes a write with any byte enables for a full one
intel_dsb_prev_ins_is_mmio_write_any_mask(D, reg) ==
    IF D.free_pos = 0 THEN FALSE
    ELSE LET w == intel_dsb_buffer_read(D, D.ins_start_offset + 1)
         IN  w \div 2^DSB_OPCODE_SHIFT = DSB_OPCODE_MMIO_WRITE /\ RegBits(w) = reg

intel_dsb_prev_ins_is_mmio_write(D, reg) ==
    intel_dsb_prev_ins_is_write(D,
        DSB_OPCODE_MMIO_WRITE * 2^DSB_OPCODE_SHIFT
            + DSB_BYTE_EN * 2^DSB_BYTE_EN_SHIFT, reg)

intel_dsb_prev_ins_is_indexed_write(D, reg) ==
    intel_dsb_prev_ins_is_write(D,
        DSB_OPCODE_INDEXED_WRITE * 2^DSB_OPCODE_SHIFT, reg)

\* the upper word of a register write with every byte enabled
MmioWriteAll(reg) ==
    DSB_OPCODE_MMIO_WRITE * 2^DSB_OPCODE_SHIFT
        + DSB_BYTE_EN * 2^DSB_BYTE_EN_SHIFT + reg

\* the else branch of intel_dsb_reg_write: the value joins the indexed
\* write that the previous instruction is, or is turned into
dsb_indexed_append(D, reg, val) ==
    LET ins == D.ins_start_offset
        prev_val == intel_dsb_buffer_read(D, ins)
        C1 == intel_dsb_buffer_write(D, ins, 1)
        C2 == intel_dsb_buffer_write(C1, ins + 1,
                  DSB_OPCODE_INDEXED_WRITE * 2^DSB_OPCODE_SHIFT + reg)
        C3 == intel_dsb_buffer_write(C2, ins + 2, prev_val)
        D1 == IF intel_dsb_prev_ins_is_mmio_write(D, reg)
              THEN [C3 EXCEPT !.free_pos = @ + 1]
              ELSE D
        D2 == [intel_dsb_buffer_write(D1, D1.free_pos, val)
                   EXCEPT !.free_pos = @ + 1]
        old_val == intel_dsb_buffer_read(D2, ins)
        D3 == intel_dsb_buffer_write(D2, ins, old_val + 1)
        D4 == IF D3.free_pos % 2 = 1
              THEN intel_dsb_buffer_write(D3, D3.free_pos, 0)
              ELSE D3
    IN  [D4 EXCEPT !.prog = Append(@, Ins(val, MmioWriteAll(reg)))]

dsb_reg_write(D, reg, val) ==
    IF /\ ~intel_dsb_prev_ins_is_mmio_write(D, reg)
       /\ ~intel_dsb_prev_ins_is_indexed_write(D, reg)
    THEN intel_dsb_emit(D, val, MmioWriteAll(reg))
    ELSE IF ~assert_dsb_has_room(D) THEN D
    ELSE dsb_indexed_append(D, reg, val)

intel_dsb_mask_to_byte_en(mask) ==
    (IF mask[1] # 0 THEN 8 ELSE 0) + (IF mask[2] # 0 THEN 4 ELSE 0)
        + (IF mask[3] # 0 THEN 2 ELSE 0) + (IF mask[4] # 0 THEN 1 ELSE 0)

dsb_reg_write_masked(D, reg, mask, val) ==
    intel_dsb_emit(D, val,
        DSB_OPCODE_MMIO_WRITE * 2^DSB_OPCODE_SHIFT
            + intel_dsb_mask_to_byte_en(mask) * 2^DSB_BYTE_EN_SHIFT + reg)

RECURSIVE dsb_noop(_, _)
dsb_noop(D, count) ==
    IF count = 0 THEN D
    ELSE dsb_noop(intel_dsb_emit(D, 0, DSB_OPCODE_NOOP * 2^DSB_OPCODE_SHIFT),
                  count - 1)

\* the lines of the mode the pipe runs before the commit
pre_commit_is_vrr_active(needs_modeset, vrr_enable, vrr_disabling) ==
    IF needs_modeset THEN FALSE ELSE vrr_enable /\ ~vrr_disabling

dsb_scanline_to_hw_no_wrap(scanline, vtotal, offset) ==
    CRem(scanline - offset, vtotal)

dsb_scanline_to_hw(scanline, vtotal, offset) ==
    CRem(scanline + vtotal - offset, vtotal)

\* memset of the words from free_pos to the next cacheline: so many NOOPs
RECURSIVE dsb_memset(_, _, _)
dsb_memset(D, from, to) ==
    IF from >= to THEN D
    ELSE dsb_memset(intel_dsb_buffer_write(D, from, 0), from + 1, to)

intel_dsb_align_tail(D) ==
    LET tail == D.free_pos * 4
        aligned_tail == ALIGN(tail, CACHELINE_BYTES)
        D1 == dsb_memset(D, D.free_pos, aligned_tail \div 4)
        pad == (aligned_tail \div 4 - ALIGN(D.free_pos, 2)) \div 2
    IN  [D1 EXCEPT !.free_pos = aligned_tail \div 4,
                   !.prog = @ \o [i \in 1..pad |-> Ins(0, 0)]]

dsb_finish(D) ==
    intel_dsb_align_tail(
        dsb_reg_write_masked(dsb_reg_write(D, DSB_PMCTRL, 0),
                             DSB_PMCTRL_2, DSB_FORCE_DEWAKE, 0))

\* ---- what the sequencer makes of the buffer ----

\* the values of an indexed write, as register writes
RECURSIVE IndexedValues(_, _, _, _)
IndexedValues(D, reg, i, n) ==
    IF n <= 0 THEN <<>>
    ELSE <<Ins(intel_dsb_buffer_read(D, i), MmioWriteAll(reg))>>
             \o IndexedValues(D, reg, i + 1, n - 1)

\* the instructions of the words [i, end), in the order they execute
RECURSIVE dsb_decode(_, _, _)
dsb_decode(D, i, end) ==
    IF i >= end THEN <<>>
    ELSE LET ldw == intel_dsb_buffer_read(D, i)
             udw == intel_dsb_buffer_read(D, i + 1)
             n   == IF ldw > end - (i + 2) THEN end - (i + 2) ELSE ldw
         IN  IF Ins(ldw, udw).op = DSB_OPCODE_INDEXED_WRITE
             THEN IndexedValues(D, RegBits(udw), i + 2, n)
                      \o dsb_decode(D, ALIGN(i + 2 + n, 2), end)
             ELSE <<Ins(ldw, udw)>> \o dsb_decode(D, i + 2, end)

\* the word indices at which the instructions of [i, end) start
RECURSIVE dsb_ins_starts(_, _, _)
dsb_ins_starts(D, i, end) ==
    IF i >= end THEN <<>>
    ELSE LET ldw == intel_dsb_buffer_read(D, i)
             udw == intel_dsb_buffer_read(D, i + 1)
             n   == IF ldw > end - (i + 2) THEN end - (i + 2) ELSE ldw
         IN  IF Ins(ldw, udw).op = DSB_OPCODE_INDEXED_WRITE
             THEN <<i>> \o dsb_ins_starts(D, ALIGN(i + 2 + n, 2), end)
             ELSE <<i>> \o dsb_ins_starts(D, i + 2, end)

is_dsb_busy == dsb_hw.busy

NoCall == [op |-> "none", path |-> "none", busy |-> FALSE, hw |-> dsb_hw,
           mmio |-> <<>>, err |-> <<>>, ret |-> "none"]

DsbFrame == UNCHANGED <<flipvars, txnvars, scanvars, auxvars>>

\* ---- the calls ----

intel_dsb_reg_write(reg, val) ==
    /\ dsb_pc = "idle"
    /\ dsb_nops < DsbMaxOps
    /\ DStore(dsb_reg_write(DCtx, reg, val))
    /\ dsb_nops' = dsb_nops + 1
    /\ UNCHANGED <<dsb_hw, dsb_call, dsb_pc, wait_polls, dewake_scanline>>
    /\ DsbFrame

intel_dsb_reg_write_masked(reg, mask, val) ==
    /\ dsb_pc = "idle"
    /\ dsb_nops < DsbMaxOps
    /\ DStore(dsb_reg_write_masked(DCtx, reg, mask, val))
    /\ dsb_nops' = dsb_nops + 1
    /\ UNCHANGED <<dsb_hw, dsb_call, dsb_pc, wait_polls, dewake_scanline>>
    /\ DsbFrame

intel_dsb_noop(count) ==
    /\ dsb_pc = "idle"
    /\ dsb_nops < DsbMaxOps
    /\ DStore(dsb_noop(DCtx, count))
    /\ dsb_nops' = dsb_nops + 1
    /\ UNCHANGED <<dsb_hw, dsb_call, dsb_pc, wait_polls, dewake_scanline>>
    /\ DsbFrame

\* the atomic state handed in decides the timing: whether the commit is a
\* modeset, and the old state's variable refresh
intel_dsb_wait_scanline(needs_modeset, vrr_enable, crtc_vtotal, offset, scanline) ==
    /\ dsb_pc = "idle"
    /\ dsb_nops < DsbMaxOps
    /\ LET vtotal == IF pre_commit_is_vrr_active(needs_modeset, vrr_enable, FALSE)
                     THEN crtc_vtotal + 1       \* vrr.vmax
                     ELSE crtc_vtotal           \* intel_mode_vtotal
           hwline == dsb_scanline_to_hw(scanline, vtotal, offset)
       IN  /\ scanline < vtotal
           /\ DStore(intel_dsb_emit(DCtx, hwline,
                         DSB_OPCODE_WAIT_SCANLINE * 2^DSB_OPCODE_SHIFT))
    /\ dsb_nops' = dsb_nops + 1
    /\ UNCHANGED <<dsb_hw, dsb_call, dsb_pc, wait_polls, dewake_scanline>>
    /\ DsbFrame

intel_dsb_finish ==
    /\ dsb_pc = "idle"
    /\ dsb_nops < DsbMaxOps
    /\ DStore(dsb_finish(DCtx))
    /\ dsb_nops' = dsb_nops + 1
    /\ UNCHANGED <<dsb_hw, dsb_call, dsb_pc, wait_polls, dewake_scanline>>
    /\ DsbFrame

dsb_commit_writes_tail_first(dewake) ==
    <<"DSB_TAIL", "DSB_CTRL", "DSB_CHICKEN", "DSB_BUFRPT_CNT", "DSB_INTERRUPT",
      "DSB_HEAD">>

\* the registers _intel_dsb_commit writes once it found the sequencer idle
dsb_commit_writes(dewake) ==
    <<"DSB_CTRL", "DSB_CHICKEN", "DSB_BUFRPT_CNT", "DSB_INTERRUPT", "DSB_HEAD">>
        \o (IF dewake >= 0 THEN <<"DSB_PMCTRL", "DSB_PMCTRL_2">> ELSE <<>>)
        \o <<"DSB_TAIL">>

\* the sequencer once DSB_TAIL is written: it runs if there is anything
\* between head and tail
dsb_hw_start(ctrl, tail) ==
    [ctrl |-> ctrl \cup {"DSB_ENABLE"},
     head |-> intel_dsb_buffer_ggtt_offset,
     tail |-> intel_dsb_buffer_ggtt_offset + tail,
     busy |-> tail # 0]

dsb_commit_no_busy_check(ctrl, dewake) ==
    LET tail == free_pos * 4
        call == [NoCall EXCEPT !.op = "commit", !.busy = is_dsb_busy,
                               !.ret = "void"]
    IN  IF ~IS_ALIGNED(tail, CACHELINE_BYTES)
        THEN /\ dsb_call' = [call EXCEPT !.path = "unaligned",
                                         !.err = <<"WARN_ON">>]
             /\ dsb_hw' = dsb_hw
        ELSE /\ dsb_call' = [call EXCEPT !.path = "started",
                                         !.mmio = dsb_commit_writes(dewake)]
             /\ dsb_hw' = dsb_hw_start(ctrl, tail)

\* _intel_dsb_commit: the tail is checked, then the busy status, then the
\* registers are written
dsb_commit(ctrl, dewake) ==
    LET tail == free_pos * 4
        call == [NoCall EXCEPT !.op = "commit", !.busy = is_dsb_busy,
                               !.ret = "void"]
    IN  IF ~IS_ALIGNED(tail, CACHELINE_BYTES)
        THEN /\ dsb_call' = [call EXCEPT !.path = "unaligned",
                                         !.err = <<"WARN_ON">>]
             /\ dsb_hw' = dsb_hw
        ELSE IF is_dsb_busy
        THEN /\ dsb_call' = [call EXCEPT !.path = "busy",
                                         !.err = <<"DSB is busy">>]
             /\ dsb_hw' = dsb_hw
        ELSE /\ dsb_call' = [call EXCEPT !.path = "started",
                                         !.mmio = dsb_commit_writes(dewake)]
             /\ dsb_hw' = dsb_hw_start(ctrl, tail)

intel_dsb_commit(wait_for_vblank) ==
    /\ dsb_pc = "idle"
    /\ dsb_nops < DsbMaxOps
    /\ dsb_commit(IF wait_for_vblank THEN {"DSB_WAIT_FOR_VBLANK"} ELSE {},
                  IF wait_for_vblank THEN dewake_scanline ELSE 0 - 1)
    /\ dsb_nops' = dsb_nops + 1
    /\ UNCHANGED <<dsb_buf, dsb_size, free_pos, ins_start_offset, dsb_prog,
                   dsb_starts, dsb_pc, wait_polls, dewake_scanline>>
    /\ DsbFrame

\* intel_dsb_wait is entered: wait_for starts its clock
intel_dsb_wait ==
    /\ dsb_pc = "idle"
    /\ dsb_nops < DsbMaxOps
    /\ dsb_pc' = "wait"
    /\ wait_polls' = 0
    /\ dsb_call' = [NoCall EXCEPT !.op = "wait", !.busy = is_dsb_busy]
    /\ dsb_nops' = dsb_nops + 1
    /\ UNCHANGED <<dsb_buf, dsb_size, free_pos, ins_start_offset, dsb_prog,
                   dsb_starts, dsb_hw, dewake_scanline>>
    /\ DsbFrame

\* wait_for finds the sequencer busy and its time not yet up
dsb_wait_poll ==
    /\ dsb_pc = "wait"
    /\ is_dsb_busy
    /\ wait_polls < WaitPolls
    /\ wait_polls' = wait_polls + 1
    /\ UNCHANGED <<dsb_buf, dsb_size, free_pos, ins_start_offset, dsb_prog,
                   dsb_starts, dsb_hw, dsb_call, dsb_pc, dsb_nops,
                   dewake_scanline>>
    /\ DsbFrame

dsb_wait_return_no_reset(timed_out) ==
    /\ dsb_call' = [dsb_call EXCEPT
           !.path = IF timed_out THEN "timeout" ELSE "idle",
           !.hw = dsb_hw,
           !.mmio = <<"DSB_INTERRUPT">>,
           !.ret = "void"]
    /\ dsb_hw' = dsb_hw
    /\ free_pos' = 0
    /\ ins_start_offset' = 0

\* what intel_dsb_wait does once wait_for returned
dsb_wait_return(timed_out) ==
    /\ dsb_call' = [dsb_call EXCEPT
           !.path = IF timed_out THEN "timeout" ELSE "idle",
           !.hw = dsb_hw,
           !.mmio = (IF timed_out THEN <<"DSB_CTRL=ENABLE|HALT">> ELSE <<>>)
                        \o <<"DSB_CTRL=0", "DSB_INTERRUPT">>,
           !.err = IF timed_out
                   THEN <<[msg |-> "timed out waiting for idle",
                           head |-> dsb_hw.head - intel_dsb_buffer_ggtt_offset,
                           tail |-> dsb_hw.tail - intel_dsb_buffer_ggtt_offset,
                           ctrl |-> {"DSB_ENABLE", "DSB_HALT"},
                           status |-> dsb_hw.busy]>>
                   ELSE <<>>,
           !.ret = "void"]
    /\ dsb_hw' = [dsb_hw EXCEPT !.ctrl = {}, !.busy = FALSE]
    /\ free_pos' = 0
    /\ ins_start_offset' = 0

\* wait_for returns: the sequencer went idle, or the time is up
dsb_wait_done ==
    /\ dsb_pc = "wait"
    /\ IF is_dsb_busy THEN wait_polls = WaitPolls ELSE TRUE
    /\ dsb_wait_return(is_dsb_busy)
    /\ dsb_pc' = "idle"
    /\ dsb_prog' = <<>>
    /\ dsb_starts' = <<>>
    /\ UNCHANGED <<dsb_buf, dsb_size, wait_polls, dsb_nops,
                   dewake_scanline>>
    /\ DsbFrame

\* the sequencer reaches the tail
dsb_hw_done ==
    /\ dsb_hw.busy
    /\ dsb_hw' = [dsb_hw EXCEPT !.busy = FALSE]
    /\ UNCHANGED <<dsb_buf, dsb_size, free_pos, ins_start_offset, dsb_prog,
                   dsb_starts, dsb_call, dsb_pc, wait_polls, dsb_nops,
                   dewake_scanline>>
    /\ DsbFrame

\* no DSB was prepared
DsbIdle ==
    /\ dsb_size = 0
    /\ dsb_buf = <<>>
    /\ free_pos = 0
    /\ ins_start_offset = 0
    /\ dsb_prog = <<>>
    /\ dsb_starts = <<>>
    /\ dsb_hw = [ctrl |-> {}, head |-> 0, tail |-> 0, busy |-> FALSE]
    /\ dsb_call = [op |-> "none", path |-> "none", busy |-> FALSE,
                   hw |-> [ctrl |-> {}, head |-> 0, tail |-> 0, busy |-> FALSE],
                   mmio |-> <<>>, err |-> <<>>, ret |-> "none"]
    /\ dsb_pc = "idle"
    /\ wait_polls = 0
    /\ dsb_nops = 0
    /\ dewake_scanline = 0

\* intel_dsb_prepare returned a DSB: a buffer of whole cachelines that was
\* never written
DsbInit ==
    /\ dsb_size = ALIGN(DsbMaxCmds * 8, CACHELINE_BYTES) \div 4
    /\ \E junk \in DsbJunk : dsb_buf = [i \in 0..(dsb_size - 1) |-> junk]
    /\ free_pos = 0
    /\ ins_start_offset = 0
    /\ dsb_prog = <<>>
    /\ dsb_starts = <<>>
    /\ dsb_hw = [ctrl |-> {}, head |-> 0, tail |-> 0, busy |-> FALSE]
    /\ dsb_call = [op |-> "none", path |-> "none", busy |-> FALSE,
                   hw |-> [ctrl |-> {}, head |-> 0, tail |-> 0, busy |-> FALSE],
                   mmio |-> <<>>, err |-> <<>>, ret |-> "none"]
    /\ dsb_pc = "idle"
    /\ wait_polls = 0
    /\ dsb_nops = 0
    /\ dewake_scanline \in {0 - 1, 1}

DsbNext ==
    \/ \E reg \in DsbRegs, val \in DsbVals : intel_dsb_reg_write(reg, val)
    \/ \E mask \in DsbMasks : intel_dsb_reg_write_masked(1, mask, 1)
    \/ \E count \in 1..2 : intel_dsb_noop(count)
    \/ \E needs_modeset, vrr_enable \in BOOLEAN, crtc_vtotal \in 3..MaxVtotal,
          offset \in ScanlineOffsets, scanline \in 0..MaxVtotal :
           intel_dsb_wait_scanline(needs_modeset, vrr_enable, crtc_vtotal,
                                   offset, scanline)
    \/ intel_dsb_finish
    \/ \E wait_for_vblank \in BOOLEAN : intel_dsb_commit(wait_for_vblank)
    \/ intel_dsb_wait
    \/ dsb_wait_poll
    \/ dsb_wait_done
    \/ dsb_hw_done

FlipInit ==
    /\ drm_async_gpu \in BOOLEAN
    /\ crtc_active \in [Pipes -> BOOLEAN]
    /\ flips = <<>>
    /\ flip_list = <<>>
    /\ queue_len = 0
    /\ next_flip_seq = 0
    /\ ring_seqno = [r \in Rings |-> 0]
    /\ ring_irq_refcount = [r \in Rings |-> 0]
    /\ wedged = FALSE
    /\ work_pending = FALSE
    /\ worker_pc = "idle"
    /\ worker_flips = <<>>
    /\ worker_crtc = 0
    /\ scheduled_flip = [h \in Helpers |-> 0]
    /\ finish_list = <<>>
    /\ vbl_count = [p \in Pipes |-> 0]
    /\ vbl_irq = [p \in Pipes |-> FALSE]
    /\ cpc = "idle"
    /\ c_pipe = 0
    /\ c_flips = <<>>
    /\ c_rings_mask = {}
    /\ c_dirty = NoDirty
    /\ complete_log = <<>>

(***************************************************************************)
(* Frame counters and vblank evasion.  One active pipe, the thread that    *)
(* schedules one flip on it (intel_atomic_schedule_flips) and the pipe's    *)
(* vblank interrupt.  A frame count is a u32, held as two 16-bit halves;    *)
(* it counts the vblank starts of the pipe.                                 *)
(***************************************************************************)
\* bound on the vblank starts of a run
VblFrames == 2
\* msecs_to_jiffies(3): the jiffies intel_pipe_vblank_evade waits at most
EvadeJiffies == 2

u32(hi, lo) == [hi |-> hi, lo |-> lo]

\* a + n in u32 arithmetic, for a small n
u32_add(a, n) ==
    [hi |-> (a.hi + ((a.lo + n) \div 65536)) % 65536, lo |-> (a.lo + n) % 65536]

\* a - b in u32 arithmetic
u32_sub(a, b) ==
    [hi |-> (a.hi - b.hi - (IF a.lo < b.lo THEN 1 ELSE 0)) % 65536,
     lo |-> (a.lo - b.lo) % 65536]

\* a & 0xffffff
mask_ffffff(a) == [hi |-> a.hi % 256, lo |-> a.lo]

\* a comparison that takes the counts for unbounded numbers
vbl_count_after_eq_plain(a, b) == a.hi > b.hi \/ (a.hi = b.hi /\ a.lo >= b.lo)

\* !((a - b) & 0x80000000)
vbl_count_after_eq_new(a, b) == u32_sub(a, b).hi < 32768

\* vbl_count_after_eq of the source: !((a - b) & 0x800000)
vbl_count_after_eq_old(a, b) == (u32_sub(a, b).hi % 256) < 128

\* intel_vbl_check on the counts of the hardware
intel_vbl_check_count(new, target, cur) ==
    IF new THEN vbl_count_after_eq_new(cur, target)
    ELSE vbl_count_after_eq_old(cur, target)

\* a target that is the sampled count itself
flip_target_same(new, sample) == sample

\* intel_flip_flip: "this flip will happen on the next vblank"
flip_target(new, sample) ==
    IF new THEN u32_add(sample, 1) ELSE mask_ffffff(u32_add(sample, 1))

\* the modes of the pipe: 50 usec are one or two scanlines
VblModes ==
    {[clock |-> 20, crtc_htotal |-> 1, crtc_vdisplay |-> 3, crtc_vtotal |-> 5],
     [clock |-> 40, crtc_htotal |-> 1, crtc_vdisplay |-> 3, crtc_vtotal |-> 5],
     [clock |-> 40, crtc_htotal |-> 0, crtc_vdisplay |-> 3, crtc_vtotal |-> 5]}

\* the counts a run starts from: zero and the last two before the wrap
VblBases(new) ==
    IF new THEN {u32(0, 0), u32(65535, 65534), u32(65535, 65535)}
    ELSE {u32(0, 0), u32(255, 65534), u32(255, 65535)}

\* DIV_ROUND_UP(usecs * clock, 1000 * crtc_htotal)
usecs_to_scanlines(mode, usecs) ==
    IF mode.crtc_htotal = 0 THEN 1
    ELSE (usecs * mode.clock + 1000 * mode.crtc_htotal - 1)
             \div (1000 * mode.crtc_htotal)

\* val >= min && val <= max in intel_pipe_vblank_evade
InEvadeWindow(val) ==
    /\ val >= vb_mode.crtc_vdisplay - usecs_to_scanlines(vb_mode, 50)
    /\ val <= vb_mode.crtc_vdisplay - 1

\* the pipe is between vblank start and the last line of the frame
InVblank == vb_dsl >= vb_mode.crtc_vdisplay /\ vb_dsl < vb_mode.crtc_vtotal - 1

\* PIPE_FRMCOUNT_GM45 counts the vblank starts
PIPE_FRMCOUNT_GM45 == u32_add(vb_base, vb_nfrm)

\* PIPEFRAME and PIPEFRAMEPIXEL: the 24-bit count that moves on the last
\* line of the frame
PIPEFRAME == mask_ffffff(u32_add(vb_base, vb_nfrm - (IF InVblank THEN 1 ELSE 0)))

\* get_vbl_count; the reads of the old style are of one frame
get_vbl_count ==
    IF vb_new THEN PIPE_FRMCOUNT_GM45
    ELSE mask_ffffff(u32_add(PIPEFRAME, IF InVblank THEN 1 ELSE 0))

\* wait_event_timeout is over: the condition holds or the time is up
wait_over_no_timeout(received, timeout) == received

wait_over(received, timeout) == received \/ timeout = 0

NoVblFlip == [state |-> "none", commit_n |-> 0, arm_n |-> 0, done_n |-> 0,
              target |-> u32(0, 0), done_count |-> u32(0, 0)]

VblFrame ==
    UNCHANGED <<flipvars, txnvars, scanvars, dsbvars,
                cmpvars, bwvars, sclvars, armvars, refvars, seqvars, evtvars>>

\* intel_atomic_schedule_flips on the active pipe, up to the first read of
\* PIPEDSL in intel_pipe_vblank_evade
intel_atomic_schedule_flips_evade ==
    /\ vb_pc = "idle"
    /\ vb_flip.state = "none"
    /\ vb_flip' = [vb_flip EXCEPT !.state = "commit", !.commit_n = vb_nfrm]
    /\ vb_irqoff' = TRUE
    /\ vbl_received' = FALSE
    /\ vb_val' = vb_dsl
    /\ vb_timeout' = EvadeJiffies
    /\ vb_log' = [waits |-> 0, warned |-> FALSE]
    /\ vb_pc' = "evade"
    /\ UNCHANGED <<vb_new, vb_mode, vb_base, vb_nfrm, vb_dsl, vb_irq>>
    /\ VblFrame

\* the test of the while loop, and the warning after it
evade_loop ==
    /\ vb_pc = "evade"
    /\ IF InEvadeWindow(vb_val) /\ vb_timeout > 0
       THEN /\ vb_irqoff' = FALSE
            /\ vb_log' = [vb_log EXCEPT !.waits = @ + 1]
            /\ vb_pc' = "evade_wait"
       ELSE /\ vb_log' = [vb_log EXCEPT !.warned = InEvadeWindow(vb_val)]
            /\ vb_pc' = "flip"
            /\ UNCHANGED vb_irqoff
    /\ UNCHANGED <<vb_new, vb_mode, vb_base, vb_nfrm, vb_dsl, vb_irq,
                   vbl_received, vb_val, vb_timeout, vb_flip>>
    /\ VblFrame

\* a jiffy passes while the thread sleeps in wait_event_timeout
evade_tick ==
    /\ vb_pc = "evade_wait"
    /\ ~vbl_received
    /\ vb_timeout > 0
    /\ vb_timeout' = vb_timeout - 1
    /\ UNCHANGED <<vb_new, vb_mode, vb_base, vb_nfrm, vb_dsl, vb_irq, vb_irqoff,
                   vbl_received, vb_pc, vb_val, vb_log, vb_flip>>
    /\ VblFrame

\* wait_event_timeout returns what is left of the timeout; PIPEDSL is read
\* again with interrupts off
evade_wake ==
    /\ vb_pc = "evade_wait"
    /\ wait_over(vbl_received, vb_timeout)
    /\ vb_irqoff' = TRUE
    /\ vbl_received' = FALSE
    /\ vb_val' = vb_dsl
    /\ vb_pc' = "evade"
    /\ UNCHANGED <<vb_new, vb_mode, vb_base, vb_nfrm, vb_dsl, vb_irq,
                   vb_timeout, vb_log, vb_flip>>
    /\ VblFrame

\* drm_flip_driver_schedule_flips: intel_flip_flip samples the count and arms
\* the registers; interrupts are enabled again
schedule_flips_arm ==
    /\ vb_pc = "flip"
    /\ vb_flip' = [vb_flip EXCEPT !.state = "armed", !.arm_n = vb_nfrm,
                                  !.target = flip_target(vb_new, get_vbl_count)]
    /\ vb_irqoff' = FALSE
    /\ vb_pc' = "idle"
    /\ UNCHANGED <<vb_new, vb_mode, vb_base, vb_nfrm, vb_dsl, vb_irq,
                   vbl_received, vb_val, vb_timeout, vb_log>>
    /\ VblFrame

\* the pipe moves to the next scanline; vblank starts at crtc_vdisplay.  An
\* interrupt that is enabled is taken within the line, and a thread whose
\* wait is over runs before the pipe is back in the window.
pipe_scanline ==
    LET next == (vb_dsl + 1) % vb_mode.crtc_vtotal IN
    /\ ~(vb_irq /\ ~vb_irqoff)
    /\ (vb_pc = "evade_wait" /\ wait_over(vbl_received, vb_timeout))
           => (InEvadeWindow(vb_dsl) \/ ~InEvadeWindow(next))
    /\ vb_dsl' = next
    /\ IF next = vb_mode.crtc_vdisplay
       THEN /\ vb_nfrm < VblFrames
            /\ vb_nfrm' = vb_nfrm + 1
            /\ vb_irq' = TRUE
       ELSE UNCHANGED <<vb_nfrm, vb_irq>>
    /\ UNCHANGED <<vb_new, vb_mode, vb_base, vb_irqoff, vbl_received, vb_pc,
                   vb_val, vb_timeout, vb_log, vb_flip>>
    /\ VblFrame

\* intel_atomic_handle_vblank: the waiter is woken and drm_flip_helper_vblank
\* asks intel_flip_vblank whether the pending flip is done
pipe_vblank ==
    /\ vb_irq
    /\ ~vb_irqoff
    /\ vb_irq' = FALSE
    /\ vbl_received' = TRUE
    /\ IF /\ vb_flip.state = "armed"
          /\ intel_vbl_check_count(vb_new, vb_flip.target, get_vbl_count)
       THEN vb_flip' = [vb_flip EXCEPT !.state = "done", !.done_n = vb_nfrm,
                                       !.done_count = get_vbl_count]
       ELSE UNCHANGED vb_flip
    /\ UNCHANGED <<vb_new, vb_mode, vb_base, vb_nfrm, vb_dsl, vb_irqoff, vb_pc,
                   vb_val, vb_timeout, vb_log>>
    /\ VblFrame

VblIdle ==
    /\ vb_new = FALSE
    /\ vb_mode = [clock |-> 0, crtc_htotal |-> 0, crtc_vdisplay |-> 0,
                  crtc_vtotal |-> 0]
    /\ vb_base = u32(0, 0)
    /\ vb_nfrm = 0
    /\ vb_dsl = 0
    /\ vb_irq = FALSE
    /\ vb_irqoff = FALSE
    /\ vbl_received = FALSE
    /\ vb_pc = "idle"
    /\ vb_val = 0
    /\ vb_timeout = 0
    /\ vb_log = [waits |-> 0, warned |-> FALSE]
    /\ vb_flip = NoVblFlip

\* the pipe is at the top of a frame; a vblank interrupt may have been
\* received before
VblInit ==
    /\ vb_new \in BOOLEAN
    /\ vb_mode \in VblModes
    /\ vb_base \in VblBases(vb_new)
    /\ vb_nfrm = 0
    /\ vb_dsl = 0
    /\ vb_irq = FALSE
    /\ vb_irqoff = FALSE
    /\ vbl_received \in BOOLEAN
    /\ vb_pc = "idle"
    /\ vb_val = 0
    /\ vb_timeout = 0
    /\ vb_log = [waits |-> 0, warned |-> FALSE]
    /\ vb_flip = NoVblFlip

VblNext ==
    \/ intel_atomic_schedule_flips_evade
    \/ evade_loop
    \/ evade_tick
    \/ evade_wake
    \/ schedule_flips_arm
    \/ pipe_scanline
    \/ pipe_vblank

(***************************************************************************)
(* The comparison of frame counts on its own: a flip is armed at any count  *)
(* and intel_flip_vblank is asked at any other.                             *)
(***************************************************************************)
\* counts around zero, the middle and the end of the counter's range
CmpCounts(new) ==
    {u32(hi, lo) : hi \in (IF new THEN {0, 32767, 32768, 65535}
                                  ELSE {0, 127, 128, 255}),
                   lo \in {0, 1, 65535}}

CmpFrame ==
    UNCHANGED <<flipvars, txnvars, scanvars, dsbvars,
                vblvars, bwvars, sclvars, armvars, refvars, seqvars, evtvars>>

\* intel_flip_flip: the count is sampled and the target is the next one
cmp_flip ==
    /\ cmp_pc = "idle"
    /\ \E sample \in CmpCounts(cmp_new) :
         /\ cmp_sample' = sample
         /\ cmp_target' = flip_target(cmp_new, sample)
    /\ cmp_pc' = "armed"
    /\ UNCHANGED <<cmp_new, cmp_cur, cmp_done>>
    /\ CmpFrame

\* intel_flip_vblank at a vblank interrupt
cmp_vblank ==
    /\ cmp_pc \in {"armed", "checked"}
    /\ \E cur \in CmpCounts(cmp_new) :
         /\ cmp_cur' = cur
         /\ cmp_done' = intel_vbl_check_count(cmp_new, cmp_target, cur)
    /\ cmp_pc' = "checked"
    /\ UNCHANGED <<cmp_new, cmp_sample, cmp_target>>
    /\ CmpFrame

CmpIdle ==
    /\ cmp_new = FALSE
    /\ cmp_sample = u32(0, 0)
    /\ cmp_target = u32(0, 0)
    /\ cmp_cur = u32(0, 0)
    /\ cmp_done = FALSE
    /\ cmp_pc = "idle"

CmpInit ==
    /\ cmp_new \in BOOLEAN
    /\ cmp_sample = u32(0, 0)
    /\ cmp_target = u32(0, 0)
    /\ cmp_cur = u32(0, 0)
    /\ cmp_done = FALSE
    /\ cmp_pc = "idle"

CmpNext == cmp_flip \/ cmp_vblank

(***************************************************************************)
(* The bandwidth check (intel_bw.c): the committed state of every pipe,    *)
(* the device's bandwidth state and one transaction at a time.              *)
(***************************************************************************)
\* bound on the transactions of a run
BwMaxTxns == 2

\* enum plane_id, as far as a pipe of the model has planes
BwPlaneIds == {"PLANE_PRIMARY", "PLANE_SPRITE0", "PLANE_CURSOR"}

\* the data rates of a plane: off, or scanning out
BwRates == {0, 1500}

\* INTEL_GEN of the devices modelled: those intel_bw_atomic_check checks
BwGens == {11, 12}

\* a pipe's state, as far as the bandwidth code reads it
BwCrtcStates ==
    {[data_rate |-> dr, active_planes |-> {pl \in BwPlaneIds : dr[pl] > 0}] :
        dr \in [BwPlaneIds -> BwRates]}

\* hweight8(crtc_state->active_planes & ~BIT(PLANE_CURSOR))
intel_bw_crtc_num_active_planes(crtc_state) ==
    Cardinality(crtc_state.active_planes \ {"PLANE_CURSOR"})

\* the sum of data_rate over the planes of the pipe, the cursor left out
intel_bw_crtc_data_rate(crtc_state) ==
    crtc_state.data_rate["PLANE_PRIMARY"] + crtc_state.data_rate["PLANE_SPRITE0"]

\* the sum of f over the pipes from p on
RECURSIVE SumPipes(_, _)
SumPipes(f, p) == IF p >= NumPipes THEN 0 ELSE f[p] + SumPipes(f, p + 1)

intel_bw_num_active_planes(bw) == SumPipes(bw.num_active_planes, 0)

intel_bw_data_rate(bw) == SumPipes(bw.data_rate, 0)

DIV_ROUND_UP(n, d) == (n + d - 1) \div d

\* the platform's limit in MB/s: the more planes fetch, the lower it is
intel_max_data_rate(num_active_planes) ==
    IF num_active_planes < 6 THEN 6 - num_active_planes ELSE 0

\* the aggregate of a configuration is within the platform's limit
BwWithinLimit(crtc) ==
    LET rate == [p \in Pipes |-> intel_bw_crtc_data_rate(crtc[p])]
        planes == [p \in Pipes |-> intel_bw_crtc_num_active_planes(crtc[p])]
    IN  DIV_ROUND_UP(SumPipes(rate, 0), 1000) <= intel_max_data_rate(SumPipes(planes, 0))

BwFrame ==
    UNCHANGED <<flipvars, txnvars, scanvars, dsbvars,
                vblvars, cmpvars, sclvars, armvars, refvars, seqvars, evtvars>>

\* a transaction that holds no intel_bw_state: bw_state is NULL
BwNull ==
    [null |-> TRUE, data_rate |-> [p \in Pipes |-> 0],
     num_active_planes |-> [p \in Pipes |-> 0]]

\* the pipes of the transaction whose rate or plane count changes
BwChanged(new) ==
    {p \in DOMAIN new :
        \/ intel_bw_crtc_data_rate(bw_crtc[p]) # intel_bw_crtc_data_rate(new[p])
        \/ intel_bw_crtc_num_active_planes(bw_crtc[p])
               # intel_bw_crtc_num_active_planes(new[p])}

\* intel_bw_atomic_check; lock_ok tells whether intel_atomic_get_bw_state
\* gets the bandwidth state
intel_bw_atomic_check(new, lock_ok) ==
    IF bw_gen < 11 THEN [ret |-> "0", bw_state |-> BwNull]
    ELSE IF BwChanged(new) = {} THEN [ret |-> "0", bw_state |-> BwNull]
    ELSE IF ~lock_ok THEN [ret |-> "EDEADLK", bw_state |-> BwNull]
    ELSE LET bw == [null |-> FALSE,
                    data_rate |-> [p \in Pipes |->
                        IF p \in BwChanged(new)
                        THEN intel_bw_crtc_data_rate(new[p])
                        ELSE bw_obj.data_rate[p]],
                    num_active_planes |-> [p \in Pipes |->
                        IF p \in BwChanged(new)
                        THEN intel_bw_crtc_num_active_planes(new[p])
                        ELSE bw_obj.num_active_planes[p]]]
         IN  [ret |-> IF DIV_ROUND_UP(intel_bw_data_rate(bw), 1000)
                            > intel_max_data_rate(intel_bw_num_active_planes(bw))
                      THEN "EINVAL" ELSE "0",
              bw_state |-> bw]

\* the state of every pipe once the transaction is committed
BwResulting ==
    [p \in Pipes |-> IF p \in DOMAIN bw_new THEN bw_new[p] ELSE bw_crtc[p]]

\* a transaction is built: the pipes in it and their new states
bw_begin ==
    /\ bw_pc = "idle"
    /\ bw_ntxn < BwMaxTxns
    /\ \E cs \in SUBSET Pipes : \E new \in [cs -> BwCrtcStates] : bw_new' = new
    /\ bw_state' = BwNull
    /\ bw_ret' = "0"
    /\ bw_pc' = "open"
    /\ bw_ntxn' = bw_ntxn + 1
    /\ UNCHANGED <<bw_gen, bw_crtc, bw_obj>>
    /\ BwFrame

\* the check phase calls intel_bw_atomic_check
bw_check ==
    /\ bw_pc = "open"
    /\ \E lock_ok \in BOOLEAN :
         LET R == intel_bw_atomic_check(bw_new, lock_ok) IN
         /\ bw_state' = R.bw_state
         /\ bw_ret' = R.ret
    /\ bw_pc' = "checked"
    /\ UNCHANGED <<bw_gen, bw_crtc, bw_obj, bw_new, bw_ntxn>>
    /\ BwFrame

\* the states of a transaction that passed are swapped in
bw_commit ==
    /\ bw_pc = "checked"
    /\ bw_ret = "0"
    /\ bw_crtc' = BwResulting
    /\ bw_obj' = IF bw_state.null THEN bw_obj
                  ELSE [data_rate |-> bw_state.data_rate,
                        num_active_planes |-> bw_state.num_active_planes]
    /\ bw_pc' = "idle"
    /\ UNCHANGED <<bw_gen, bw_new, bw_state, bw_ret, bw_ntxn>>
    /\ BwFrame

\* a transaction that failed is dropped with its states
bw_fail ==
    /\ bw_pc = "checked"
    /\ bw_ret # "0"
    /\ bw_pc' = "idle"
    /\ UNCHANGED <<bw_gen, bw_crtc, bw_obj, bw_new, bw_state, bw_ret, bw_ntxn>>
    /\ BwFrame

\* intel_bw_crtc_update for every pipe
BwReadout(crtc) ==
    [data_rate |-> [p \in Pipes |-> intel_bw_crtc_data_rate(crtc[p])],
     num_active_planes |-> [p \in Pipes |-> intel_bw_crtc_num_active_planes(crtc[p])]]

BwOff == [data_rate |-> [pl \in BwPlaneIds |-> 0], active_planes |-> {}]

BwIdle ==
    /\ bw_gen = 0
    /\ bw_crtc = [p \in Pipes |-> BwOff]
    /\ bw_obj = BwReadout(bw_crtc)
    /\ bw_new = << >>
    /\ bw_state = BwNull
    /\ bw_ret = "0"
    /\ bw_pc = "idle"
    /\ bw_ntxn = 0

\* the state the driver reads out of the hardware when it loads
BwInit ==
    /\ bw_gen \in BwGens
    /\ bw_crtc \in [Pipes -> BwCrtcStates]
    /\ bw_obj = BwReadout(bw_crtc)
    /\ bw_new = << >>
    /\ bw_state = BwNull
    /\ bw_ret = "0"
    /\ bw_pc = "idle"
    /\ bw_ntxn = 0

BwNext == bw_begin \/ bw_check \/ bw_commit \/ bw_fail

(***************************************************************************)
(* Scaler setup (display/intel_atomic.c): one pipe, its planes and the     *)
(* scaler requests staged in the pipe's new state.                          *)
(***************************************************************************)
\* planes of the pipe
SclNumPlanes == 2
\* the most scalers a pipe has
SclMaxScalers == 2

SclPlanes == 0 .. (SclNumPlanes - 1)

SCALER_1 == 0
SKL_CRTC_INDEX == 31
INVALID_SCALER == -1

\* intel_plane_scaler_user is the plane's index, intel_crtc_scaler_user
\* is SKL_CRTC_INDEX
SclUsers == SclPlanes \cup {SKL_CRTC_INDEX}

SclFrame ==
    UNCHANGED <<flipvars, txnvars, scanvars, dsbvars,
                vblvars, cmpvars, bwvars, armvars, refvars, seqvars, evtvars>>

\* for_each_scaler(crtc, scaler_id)
SclScalers == 0 .. (scl_crtc.num_scalers - 1)

skl_can_use_hq_scaler(crtc_state) ==
    IF scl_crtc.glk THEN FALSE
    ELSE /\ scl_crtc.num_scalers > 1
         /\ crtc_state.nv12_planes = {}
         /\ Cardinality(crtc_state.scaler_users) = 1

skl_crtc_scaler_mode(crtc_state) ==
    IF skl_can_use_hq_scaler(crtc_state)
    THEN "SKL_PS_SCALER_MODE_HQ" ELSE "SKL_PS_SCALER_MODE_DYN"

skl_plane_scaler_mode(crtc_state, plane_state) ==
    IF plane_state.yuv THEN "SKL_PS_SCALER_MODE_NV12"
    ELSE skl_crtc_scaler_mode(crtc_state)

glk_plane_scaler_mode(plane_state) ==
    IF plane_state.yuv THEN "PS_SCALER_MODE_PLANAR" ELSE "PS_SCALER_MODE_NORMAL"

\* skl_update_hq_scaler: the user moves to scaler 1
skl_update_hq_scaler(scalers, scaler_id) ==
    LET freed == [scalers EXCEPT ![scaler_id].in_use = FALSE]
    IN  [freed EXCEPT ![SCALER_1].in_use = TRUE]

\* intel_allocate_scaler: the first scaler that is not in use
intel_allocate_scaler(scalers) ==
    LET free == {s \in SclScalers : ~scalers[s].in_use}
    IN  IF free = {} THEN INVALID_SCALER
        ELSE CHOOSE s \in free : \A t \in free : s <= t

\* the scaler state once scaler_id is given to a user that wants mode
SclAttach(C, scaler_id, mode) ==
    LET taken == IF scaler_id = INVALID_SCALER
                 THEN intel_allocate_scaler(C.new.scalers) ELSE scaler_id
        marked == IF scaler_id = INVALID_SCALER /\ taken # INVALID_SCALER
                  THEN [C.new.scalers EXCEPT ![taken].in_use = TRUE]
                  ELSE C.new.scalers
    IN  IF taken = INVALID_SCALER
        THEN [id |-> taken, scalers |-> marked, warned |-> TRUE]
        ELSE LET hq == mode = "SKL_PS_SCALER_MODE_HQ"
                 id == IF hq THEN SCALER_1 ELSE taken
                 moved == IF hq THEN skl_update_hq_scaler(marked, taken) ELSE marked
             IN  [id |-> id, scalers |-> [moved EXCEPT ![id].mode = mode],
                  warned |-> C.warned]

intel_crtc_setup_scaler(C) ==
    LET mode == IF scl_crtc.glk THEN "PS_SCALER_MODE_NORMAL"
                ELSE skl_crtc_scaler_mode(C.new)
        A == SclAttach(C, C.new.pfit, mode)
    IN  [C EXCEPT !.new.pfit = A.id, !.new.scalers = A.scalers, !.warned = A.warned]

intel_plane_setup_scaler(C, k) ==
    LET mode == IF scl_crtc.glk THEN glk_plane_scaler_mode(C.planes[k])
                ELSE skl_plane_scaler_mode(C.new, C.planes[k])
        A == SclAttach(C, C.planes[k].scaler_id, mode)
    IN  [C EXCEPT !.planes[k].scaler_id = A.id, !.new.scalers = A.scalers,
                  !.warned = A.warned]

\* skl_add_scaled_planes from plane k on; lock_ok tells whether
\* intel_atomic_get_plane_state gets a plane that is not in the state yet
RECURSIVE skl_add_scaled_planes(_, _, _)
skl_add_scaled_planes(C, k, lock_ok) ==
    IF k >= SclNumPlanes THEN C
    ELSE IF k \notin C.new.scaler_users THEN skl_add_scaled_planes(C, k + 1, lock_ok)
    ELSE IF k \notin C.in_state /\ ~lock_ok THEN [C EXCEPT !.ret = "EDEADLK"]
    ELSE skl_add_scaled_planes(
             [C EXCEPT !.in_state = @ \cup {k}, !.new.update_planes = @ \cup {k}],
             k + 1, lock_ok)

\* for_each_new_intel_plane_in_state from plane k on
RECURSIVE setup_plane_scalers(_, _)
setup_plane_scalers(C, k) ==
    IF k >= SclNumPlanes THEN C
    ELSE IF k \notin C.in_state THEN setup_plane_scalers(C, k + 1)
    ELSE setup_plane_scalers(intel_plane_setup_scaler(C, k), k + 1)

SclCtx ==
    [new |-> scl_new, planes |-> scl_planes, in_state |-> scl_in_state,
     warned |-> FALSE, ret |-> "0"]

\* intel_atomic_setup_scalers after its test of the number of users
setup_scalers_body(lock_ok) ==
    LET C == SclCtx
        A == IF skl_can_use_hq_scaler(scl_old) # skl_can_use_hq_scaler(C.new)
             THEN LET P == skl_add_scaled_planes(C, 0, lock_ok)
                  IN  IF P.ret # "0" THEN P
                      ELSE IF SKL_CRTC_INDEX \in P.new.scaler_users
                           THEN [P EXCEPT !.new.update_pipe = TRUE] ELSE P
             ELSE C
    IN  IF A.ret # "0" THEN A
        ELSE setup_plane_scalers(intel_crtc_setup_scaler(A), 0)

\* the setup without the test of the number of users
intel_atomic_setup_scalers_untested(lock_ok) == setup_scalers_body(lock_ok)

intel_atomic_setup_scalers(lock_ok) ==
    IF Cardinality(scl_new.scaler_users) > scl_crtc.num_scalers
    THEN [SclCtx EXCEPT !.ret = "EINVAL"]
    ELSE setup_scalers_body(lock_ok)

\* the crtc level check calls intel_atomic_setup_scalers
scl_setup ==
    /\ scl_pc = "staged"
    /\ \E lock_ok \in BOOLEAN :
         LET R == intel_atomic_setup_scalers(lock_ok) IN
         /\ scl_new' = R.new
         /\ scl_planes' = R.planes
         /\ scl_in_state' = R.in_state
         /\ scl_warned' = R.warned
         /\ scl_ret' = R.ret
    /\ scl_before' = [new |-> scl_new, planes |-> scl_planes, in_state |-> scl_in_state]
    /\ scl_pc' = "done"
    /\ UNCHANGED <<scl_crtc, scl_old>>
    /\ SclFrame

\* the scaler ids a state can hold
SclIds == {INVALID_SCALER} \cup (0 .. (SclMaxScalers - 1))

NoScaler == [in_use |-> FALSE, mode |-> "none"]

SclIdle ==
    /\ scl_crtc = [num_scalers |-> 0, glk |-> FALSE]
    /\ scl_old = [scaler_users |-> {}, nv12_planes |-> {}]
    /\ scl_new = [scaler_users |-> {}, nv12_planes |-> {}, pfit |-> INVALID_SCALER,
                  scalers |-> [s \in 0 .. (SclMaxScalers - 1) |-> NoScaler],
                  update_planes |-> {}, update_pipe |-> FALSE]
    /\ scl_planes = [k \in SclPlanes |-> [scaler_id |-> INVALID_SCALER, yuv |-> FALSE]]
    /\ scl_in_state = {}
    /\ scl_before = [new |-> scl_new, planes |-> scl_planes, in_state |-> scl_in_state]
    /\ scl_warned = FALSE
    /\ scl_ret = "0"
    /\ scl_pc = "idle"

\* a request is staged: the users keep the scalers they have, a scaler is
\* in use exactly if a user holds it, only users hold one
SclInit ==
    /\ scl_crtc \in [num_scalers : 1 .. SclMaxScalers, glk : BOOLEAN]
    /\ scl_old \in [scaler_users : SUBSET SclUsers, nv12_planes : {{}}]
    /\ \E users \in SUBSET SclUsers, nv12 \in {{}, {0}},
          ids \in [SclUsers -> SclIds] :
         /\ \A u \in SclUsers :
              /\ ids[u] # INVALID_SCALER => u \in users /\ ids[u] < scl_crtc.num_scalers
              /\ \A v \in SclUsers : (u # v /\ ids[u] # INVALID_SCALER) => ids[u] # ids[v]
         /\ scl_new = [scaler_users |-> users, nv12_planes |-> nv12,
                       pfit |-> ids[SKL_CRTC_INDEX],
                       scalers |-> [s \in 0 .. (SclMaxScalers - 1) |->
                           [in_use |-> \E u \in SclUsers : ids[u] = s,
                            mode |-> "none"]],
                       update_planes |-> {}, update_pipe |-> FALSE]
         /\ scl_planes = [k \in SclPlanes |-> [scaler_id |-> ids[k], yuv |-> k \in nv12]]
    /\ scl_in_state \in SUBSET SclPlanes
    /\ scl_before = [new |-> scl_new, planes |-> scl_planes, in_state |-> scl_in_state]
    /\ scl_warned = FALSE
    /\ scl_ret = "0"
    /\ scl_pc = "staged"

SclNext == scl_setup

(***************************************************************************)
(* Arming the planes of a pipe (skl_crtc_planes_update_arm): the buffer    *)
(* allocations of the old and the new state and the allocations            *)
(* programmed so far.                                                       *)
(***************************************************************************)
\* planes of the pipe
ArmNumPlanes == 3
\* blocks of the pipe's share of the display buffer
ArmDdbSize == 3

ArmPlanes == 0 .. (ArmNumPlanes - 1)

\* struct skl_ddb_entry: the blocks from start up to end, none if both are 0
NoDdb == [start |-> 0, end |-> 0]

DdbEntries ==
    {NoDdb} \cup {[start |-> s, end |-> e] :
                     s \in 0 .. (ArmDdbSize - 1), e \in 1 .. ArmDdbSize}

skl_ddb_entries_overlap(a, b) == a.start < b.end /\ b.start < a.end

\* the test that finds no allocation in the way
skl_ddb_allocation_overlaps_never(ddb, entries, ignore_idx) == FALSE

\* skl_ddb_allocation_overlaps(ddb, entries, I915_MAX_PLANES, ignore_idx)
skl_ddb_allocation_overlaps(ddb, entries, ignore_idx) ==
    \E i \in ArmPlanes : i # ignore_idx /\ skl_ddb_entries_overlap(ddb, entries[i])

\* the allocations one plane can get from block lo on: the part for its Y
\* data, if it has one, before its main part
PlaneAllocs(lo) ==
    {a \in [y : DdbEntries, d : DdbEntries] :
        /\ a.y # NoDdb => a.y.start >= lo /\ a.y.start < a.y.end /\ a.d # NoDdb
        /\ a.d # NoDdb => /\ a.d.start < a.d.end
                          /\ a.d.start >= (IF a.y # NoDdb THEN a.y.end ELSE lo)}

\* the allocations of the planes from k on, laid out from block lo on in
\* the order of the planes
RECURSIVE ArmLayoutSeqs(_, _)
ArmLayoutSeqs(k, lo) ==
    IF k >= ArmNumPlanes THEN {<< >>}
    ELSE UNION {{<<a>> \o rest :
                    rest \in ArmLayoutSeqs(k + 1, IF a.d # NoDdb THEN a.d.end ELSE lo)} :
                a \in PlaneAllocs(lo)}

\* the allocations of a pipe's planes, as the allocator lays them out
ArmLayouts ==
    {[ddb |-> [k \in ArmPlanes |-> s[k + 1].d],
      ddb_y |-> [k \in ArmPlanes |-> s[k + 1].y]] : s \in ArmLayoutSeqs(0, 0)}

ArmFrame ==
    UNCHANGED <<flipvars, txnvars, scanvars, dsbvars,
                vblvars, cmpvars, bwvars, sclvars, refvars, seqvars, evtvars>>

\* the planes skl_next_plane_to_commit can return: in the update mask, the
\* new allocations clear of what the other planes have programmed
ArmEligible ==
    {k \in arm_mask :
        /\ ~skl_ddb_allocation_overlaps(arm_new.ddb[k], arm_ddb, k)
        /\ ~skl_ddb_allocation_overlaps(arm_new.ddb_y[k], arm_ddb_y, k)}

\* skl_next_plane_to_commit returns a plane, the loop arms it
arm_plane ==
    /\ arm_pc = "loop"
    /\ ArmEligible # {}
    /\ LET k == CHOOSE p \in ArmEligible : \A q \in ArmEligible : p <= q IN
       /\ arm_mask' = arm_mask \ {k}
       /\ arm_ddb' = [arm_ddb EXCEPT ![k] = arm_new.ddb[k]]
       /\ arm_ddb_y' = [arm_ddb_y EXCEPT ![k] = arm_new.ddb_y[k]]
       /\ arm_log' = Append(arm_log,
                        [plane |-> k,
                         op |-> IF arm_visible[k] THEN "intel_plane_update_arm"
                                ELSE "intel_plane_disable_arm"])
    /\ UNCHANGED <<arm_old, arm_new, arm_update, arm_visible, arm_warned, arm_pc>>
    /\ ArmFrame

\* skl_next_plane_to_commit returns NULL and the loop ends: the update
\* mask is empty, or no plane of it can go next and WARN_ON(1) fires
arm_finish ==
    /\ arm_pc = "loop"
    /\ ArmEligible = {}
    /\ arm_warned' = (arm_mask # {})
    /\ arm_pc' = "done"
    /\ UNCHANGED <<arm_old, arm_new, arm_update, arm_visible, arm_mask, arm_ddb,
                   arm_ddb_y, arm_log>>
    /\ ArmFrame

ArmIdle ==
    /\ arm_old = [ddb |-> [k \in ArmPlanes |-> NoDdb], ddb_y |-> [k \in ArmPlanes |-> NoDdb]]
    /\ arm_new = arm_old
    /\ arm_update = {}
    /\ arm_visible = [k \in ArmPlanes |-> FALSE]
    /\ arm_mask = {}
    /\ arm_ddb = arm_old.ddb
    /\ arm_ddb_y = arm_old.ddb_y
    /\ arm_log = << >>
    /\ arm_warned = FALSE
    /\ arm_pc = "idle"

\* skl_crtc_planes_update_arm is entered: the arrays hold the old state's
\* allocations, the mask is update_planes; a plane outside update_planes
\* keeps its allocation
ArmInit ==
    /\ arm_old \in ArmLayouts
    /\ arm_new \in ArmLayouts
    /\ arm_update \in SUBSET ArmPlanes
    /\ \A k \in ArmPlanes \ arm_update :
         arm_new.ddb[k] = arm_old.ddb[k] /\ arm_new.ddb_y[k] = arm_old.ddb_y[k]
    /\ arm_visible = [k \in ArmPlanes |-> arm_new.ddb[k] # NoDdb]
    /\ arm_mask = arm_update
    /\ arm_ddb = arm_old.ddb
    /\ arm_ddb_y = arm_old.ddb_y
    /\ arm_log = << >>
    /\ arm_warned = FALSE
    /\ arm_pc = "loop"

ArmNext == arm_plane \/ arm_finish

(***************************************************************************)
(* Plane states and framebuffer references (intel_plane_duplicate_state,   *)
(* intel_plane_destroy_state): one plane, its current state, the           *)
(* duplicates made of it and the reference count of every framebuffer.     *)
(***************************************************************************)
\* framebuffers; 0 stands for NULL
RefNumFbs == 2
\* duplicates of the plane's state alive at a time
RefMaxStates == 3

RefFbs == 1 .. RefNumFbs
RefIds == 1 .. RefMaxStates

\* a slot without a state object
RefNone == [live |-> FALSE, uapi_fb |-> 0, hw_fb |-> 0]

RefFrame ==
    UNCHANGED <<flipvars, txnvars, scanvars, dsbvars,
                vblvars, cmpvars, bwvars, sclvars, armvars, seqvars, evtvars>>

\* drm_framebuffer_get
drm_framebuffer_get(R, fb) ==
    [R EXCEPT !.count[fb] = @ + 1]

\* drm_framebuffer_put: the last reference releases the framebuffer
drm_framebuffer_put(R, fb) ==
    IF R.count[fb] = 0 THEN [R EXCEPT !.underflow = TRUE]
    ELSE [R EXCEPT !.count[fb] = @ - 1,
                   !.released = IF R.count[fb] = 1 THEN @ \cup {fb} ELSE @]

RefGetIf(R, fb) == IF fb # 0 THEN drm_framebuffer_get(R, fb) ELSE R

RefPutIf(R, fb) == IF fb # 0 THEN drm_framebuffer_put(R, fb) ELSE R

\* a duplicate that takes no reference of its own on hw.fb
intel_plane_duplicate_state_no_get(R, st) ==
    RefGetIf(R, st.uapi_fb)

\* intel_plane_duplicate_state, the counts after it:
\* __drm_atomic_helper_plane_duplicate_state takes a reference on uapi.fb,
\* the function itself one on hw.fb
intel_plane_duplicate_state(R, st) ==
    RefGetIf(RefGetIf(R, st.uapi_fb), st.hw_fb)

\* intel_plane_destroy_state, the counts after it
intel_plane_destroy_state(R, st) ==
    RefPutIf(RefPutIf(R, st.uapi_fb), st.hw_fb)

\* intel_plane_clear_hw_state, the counts after it
intel_plane_clear_hw_state(R, st) == RefPutIf(R, st.hw_fb)

\* plane->state is duplicated; kmemdup can fail
ref_duplicate ==
    /\ \E id \in RefIds, alloc_ok \in BOOLEAN :
         /\ ~ref_states[id].live
         /\ \A j \in RefIds : j < id => ref_states[j].live
         /\ IF alloc_ok
            THEN /\ ref_states' = [ref_states EXCEPT ![id] =
                        [live |-> TRUE, uapi_fb |-> ref_plane.uapi_fb,
                         hw_fb |-> ref_plane.hw_fb]]
                 /\ ref_fb' = intel_plane_duplicate_state(ref_fb, ref_plane)
                 /\ ref_last' = "duplicate"
            ELSE /\ UNCHANGED <<ref_states, ref_fb>>
                 /\ ref_last' = "NULL"
    /\ UNCHANGED <<ref_plane, ref_base>>
    /\ RefFrame

\* a duplicate is destroyed
ref_destroy ==
    /\ \E id \in RefIds :
         /\ ref_states[id].live
         /\ ref_fb' = intel_plane_destroy_state(ref_fb, ref_states[id])
         /\ ref_states' = [ref_states EXCEPT ![id] = RefNone]
    /\ ref_last' = "destroy"
    /\ UNCHANGED <<ref_plane, ref_base>>
    /\ RefFrame

\* intel_plane_copy_uapi_to_hw_state on a duplicate, from itself
ref_copy_uapi_to_hw ==
    /\ \E id \in RefIds :
         /\ ref_states[id].live
         /\ ref_fb' = RefGetIf(intel_plane_clear_hw_state(ref_fb, ref_states[id]),
                               ref_states[id].uapi_fb)
         /\ ref_states' = [ref_states EXCEPT ![id].hw_fb = ref_states[id].uapi_fb]
    /\ ref_last' = "copy"
    /\ UNCHANGED <<ref_plane, ref_base>>
    /\ RefFrame

\* the references on fb held by the state st
RefHeld(st, fb) ==
    (IF st.uapi_fb = fb THEN 1 ELSE 0) + (IF st.hw_fb = fb THEN 1 ELSE 0)

RefIdle ==
    /\ ref_plane = [uapi_fb |-> 0, hw_fb |-> 0]
    /\ ref_states = [id \in RefIds |-> RefNone]
    /\ ref_fb = [count |-> [fb \in RefFbs |-> 0], released |-> {}, underflow |-> FALSE]
    /\ ref_base = ref_fb.count
    /\ ref_last = "idle"

\* the plane's state references the framebuffers it names; userspace may
\* hold a reference of its own on a framebuffer
RefInit ==
    /\ ref_plane \in [uapi_fb : {0} \cup RefFbs, hw_fb : {0} \cup RefFbs]
    /\ ref_states = [id \in RefIds |-> RefNone]
    /\ \E user \in [RefFbs -> {0, 1}] :
         ref_fb = [count |-> [fb \in RefFbs |-> user[fb] + RefHeld(ref_plane, fb)],
                   released |-> {}, underflow |-> FALSE]
    /\ ref_base = ref_fb.count
    /\ ref_last = "none"

RefNext == ref_duplicate \/ ref_destroy \/ ref_copy_uapi_to_hw

(***************************************************************************)
(* Waiting for a scanline window (intel_dsb.c): intel_dsb_wait_scanline_in *)
(* and intel_dsb_wait_scanline_out on a DSB that intel_dsb_prepare         *)
(* returned.                                                                *)
(***************************************************************************)
\* calls made on the DSB
DslMaxWaits == 2

DSB_OPCODE_WAIT_DSL_IN == 5
DSB_OPCODE_WAIT_DSL_OUT == 6
DSB_SCANLINE_UPPER_SHIFT == 20

\* intel_dsb_emit_wait_dsl: the window is a u64, upper << 20 | lower; its
\* low 32 bits go to the lower word, its high 32 bits join the opcode
intel_dsb_emit_wait_dsl(D, opcode, lower, upper) ==
    intel_dsb_emit(D,
        (upper % 2^(32 - DSB_SCANLINE_UPPER_SHIFT)) * 2^DSB_SCANLINE_UPPER_SHIFT
            + lower,
        opcode * 2^DSB_OPCODE_SHIFT
            + upper \div 2^(32 - DSB_SCANLINE_UPPER_SHIFT))

\* a variant that never waits for the complement
intel_dsb_wait_dsl_in_only(D, vtotal, offset, lower_in, upper_in, lower_out, upper_out) ==
    intel_dsb_emit_wait_dsl(D, DSB_OPCODE_WAIT_DSL_IN,
                            dsb_scanline_to_hw(lower_in, vtotal, offset),
                            dsb_scanline_to_hw(upper_in, vtotal, offset))

\* intel_dsb_wait_dsl: the window as it is if it does not wrap in hardware
\* lines, else the complement; nothing if both wrap
intel_dsb_wait_dsl(D, vtotal, offset, lower_in, upper_in, lower_out, upper_out) ==
    LET li == dsb_scanline_to_hw(lower_in, vtotal, offset)
        ui == dsb_scanline_to_hw(upper_in, vtotal, offset)
        lo == dsb_scanline_to_hw(lower_out, vtotal, offset)
        uo == dsb_scanline_to_hw(upper_out, vtotal, offset)
    IN  IF ui >= li THEN intel_dsb_emit_wait_dsl(D, DSB_OPCODE_WAIT_DSL_IN, li, ui)
        ELSE IF uo >= lo
        THEN intel_dsb_emit_wait_dsl(D, DSB_OPCODE_WAIT_DSL_OUT, lo, uo)
        ELSE D

\* assert_dsl_ok: the window is not the whole frame
assert_dsl_ok(vtotal, start, end) ==
    ~(CRem(end - start + vtotal, vtotal) = vtotal - 1)

\* what the call leaves in dsb_call: the request, the timing it was made
\* under, and whether assert_dsl_ok or intel_dsb_wait_dsl warned
DslCall(op, vtotal, offset, start, end, D) ==
    [op |-> op, path |-> "none", busy |-> FALSE, hw |-> dsb_hw, mmio |-> <<>>,
     err |-> (IF assert_dsl_ok(vtotal, start, end) THEN <<>>
              ELSE <<"bad scanline window wait">>)
             \o (IF D.prog = dsb_prog /\ assert_dsb_has_room(DCtx)
                 THEN <<"WARN_ON">> ELSE <<>>),
     ret |-> "none",
     req |-> [vtotal |-> vtotal, offset |-> offset, start |-> start,
              end |-> end, room |-> assert_dsb_has_room(DCtx),
              emitted |-> Len(D.prog) - Len(dsb_prog)]]

intel_dsb_wait_scanline_in(needs_modeset, vrr_enable, crtc_vtotal, offset, start, end) ==
    /\ dsb_pc = "idle"
    /\ dsb_nops < DslMaxWaits
    /\ LET vtotal == IF pre_commit_is_vrr_active(needs_modeset, vrr_enable, FALSE)
                     THEN crtc_vtotal + 1       \* vrr.vmax
                     ELSE crtc_vtotal           \* intel_mode_vtotal
           D == intel_dsb_wait_dsl(DCtx, vtotal, offset,
                                   start, end, end + 1, start - 1)
       IN  /\ start < vtotal /\ end < vtotal
           /\ DStore(D)
           /\ dsb_call' = DslCall("wait_scanline_in", vtotal, offset, start, end, D)
    /\ dsb_nops' = dsb_nops + 1
    /\ UNCHANGED <<dsb_hw, dsb_pc, wait_polls, dewake_scanline>>
    /\ DsbFrame

intel_dsb_wait_scanline_out(needs_modeset, vrr_enable, crtc_vtotal, offset, start, end) ==
    /\ dsb_pc = "idle"
    /\ dsb_nops < DslMaxWaits
    /\ LET vtotal == IF pre_commit_is_vrr_active(needs_modeset, vrr_enable, FALSE)
                     THEN crtc_vtotal + 1       \* vrr.vmax
                     ELSE crtc_vtotal           \* intel_mode_vtotal
           D == intel_dsb_wait_dsl(DCtx, vtotal, offset,
                                   end + 1, start - 1, start, end)
       IN  /\ start < vtotal /\ end < vtotal
           /\ DStore(D)
           /\ dsb_call' = DslCall("wait_scanline_out", vtotal, offset, start, end, D)
    /\ dsb_nops' = dsb_nops + 1
    /\ UNCHANGED <<dsb_hw, dsb_pc, wait_polls, dewake_scanline>>
    /\ DsbFrame

DslNext ==
    \/ \E needs_modeset, vrr_enable \in BOOLEAN, crtc_vtotal \in 3..MaxVtotal,
          offset \in ScanlineOffsets, start, end \in 0..MaxVtotal :
           intel_dsb_wait_scanline_in(needs_modeset, vrr_enable, crtc_vtotal,
                                      offset, start, end)
    \/ \E needs_modeset, vrr_enable \in BOOLEAN, crtc_vtotal \in 3..MaxVtotal,
          offset \in ScanlineOffsets, start, end \in 0..MaxVtotal :
           intel_dsb_wait_scanline_out(needs_modeset, vrr_enable, crtc_vtotal,
                                       offset, start, end)

(***************************************************************************)
(* Register writes among other instructions (intel_dsb.c): writes, masked  *)
(* writes, no-ops, waits and polls on a DSB with room for all of them.     *)
(***************************************************************************)
\* max_cmds asked of intel_dsb_prepare
DsbMixCmds == 12

DSB_OPCODE_WAIT_USEC == 2
DSB_OPCODE_POLL == 10

\* register offsets of the sequencer's poll registers
DSB_POLLMASK == DSB_PMCTRL_2 + 1
DSB_POLLFUNC == DSB_POLLMASK + 1

\* DSB_POLL_ENABLE | DSB_POLL_WAIT(wait) | DSB_POLL_COUNT(count): the bit
\* positions are not part of intel_dsb.c; the fields are kept apart
DSB_POLL_FUNC(wait, count) == 2^16 + wait * 2^8 + count

\* intel_dsb_emit_poll
intel_dsb_emit_poll(D, reg, mask, val, wait, count) ==
    LET D1 == dsb_reg_write(D, DSB_POLLMASK, mask)
        D2 == dsb_reg_write(D1, DSB_POLLFUNC, DSB_POLL_FUNC(wait, count))
        D3 == dsb_noop(D2, 5)
    IN  intel_dsb_emit(D3, val, DSB_OPCODE_POLL * 2^DSB_OPCODE_SHIFT + reg)

intel_dsb_poll(reg, mask, val) ==
    /\ dsb_pc = "idle"
    /\ dsb_nops < DsbMaxOps
    /\ DStore(intel_dsb_emit_poll(DCtx, reg, mask, val, 2, 50))
    /\ dsb_nops' = dsb_nops + 1
    /\ UNCHANGED <<dsb_hw, dsb_call, dsb_pc, wait_polls, dewake_scanline>>
    /\ DsbFrame

intel_dsb_wait_usec(count) ==
    /\ dsb_pc = "idle"
    /\ dsb_nops < DsbMaxOps
    /\ DStore(intel_dsb_emit(DCtx, count,
                             DSB_OPCODE_WAIT_USEC * 2^DSB_OPCODE_SHIFT))
    /\ dsb_nops' = dsb_nops + 1
    /\ UNCHANGED <<dsb_hw, dsb_call, dsb_pc, wait_polls, dewake_scanline>>
    /\ DsbFrame

\* intel_dsb_prepare returned a DSB of DsbMixCmds commands
DsbMixInit ==
    /\ dsb_size = ALIGN(DsbMixCmds * 8, CACHELINE_BYTES) \div 4
    /\ \E junk \in DsbJunk : dsb_buf = [i \in 0..(dsb_size - 1) |-> junk]
    /\ free_pos = 0
    /\ ins_start_offset = 0
    /\ dsb_prog = <<>>
    /\ dsb_starts = <<>>
    /\ dsb_hw = [ctrl |-> {}, head |-> 0, tail |-> 0, busy |-> FALSE]
    /\ dsb_call = [op |-> "none", path |-> "none", busy |-> FALSE,
                   hw |-> [ctrl |-> {}, head |-> 0, tail |-> 0, busy |-> FALSE],
                   mmio |-> <<>>, err |-> <<>>, ret |-> "none"]
    /\ dsb_pc = "idle"
    /\ wait_polls = 0
    /\ dsb_nops = 0
    /\ dewake_scanline = 1

DsbMixNext ==
    \/ \E reg \in DsbRegs, val \in DsbVals : intel_dsb_reg_write(reg, val)
    \/ \E reg \in DsbRegs, mask \in DsbMasks : intel_dsb_reg_write_masked(reg, mask, 1)
    \/ intel_dsb_noop(1)
    \/ intel_dsb_wait_usec(1)
    \/ \E reg \in DsbRegs : intel_dsb_poll(reg, 1, 1)

(***************************************************************************)
(* The sequence numbers of flip groups: dev_priv->flip.next_flip_seq, an   *)
(* unsigned int, and the numbers of the flips on flip.list.                *)
(***************************************************************************)
\* bound on the pipe commits of a run
SeqMaxCommits == 4
\* the most flips one pipe commit builds
SeqMaxFlips == 2

SeqFrame ==
    UNCHANGED <<flipvars, txnvars, scanvars, dsbvars,
                vblvars, cmpvars, bwvars, sclvars, armvars, refvars, evtvars>>

\* a < b for unsigned 32-bit numbers
u32_less(a, b) == a.hi < b.hi \/ (a.hi = b.hi /\ a.lo < b.lo)

\* a counter that hands out the same number again
next_flip_seq_stuck(a) == a

\* next_flip_seq++: the value the counter holds afterwards
next_flip_seq_inc(a) == u32_add(a, 1)

\* atomic_pipe_commit: flip_seq = next_flip_seq++, intel_atomic_flip_init
\* gives it to each of the n flips, the flips go to the tail of flip.list
seq_commit ==
    /\ seq_ncommit < SeqMaxCommits
    /\ \E n \in 0 .. SeqMaxFlips :
         seq_list' = seq_list \o
             [i \in 1 .. n |-> [commit |-> seq_ncommit + 1, flip_seq |-> seq_next]]
    /\ seq_next' = next_flip_seq_inc(seq_next)
    /\ seq_ncommit' = seq_ncommit + 1
    /\ SeqFrame

\* the flips at the head of seq_list that carry flip_seq, counted from i
RECURSIVE seq_group_len(_, _)
seq_group_len(i, flip_seq) ==
    IF i > Len(seq_list) \/ seq_list[i].flip_seq # flip_seq THEN i - 1
    ELSE seq_group_len(i + 1, flip_seq)

\* intel_atomic_process_flips_work takes the group at the head of the list
seq_dequeue ==
    /\ seq_list # << >>
    /\ seq_list' = SubSeq(seq_list, seq_group_len(1, Head(seq_list).flip_seq) + 1,
                          Len(seq_list))
    /\ UNCHANGED <<seq_next, seq_ncommit>>
    /\ SeqFrame

SeqIdle ==
    /\ seq_next = u32(0, 0)
    /\ seq_list = << >>
    /\ seq_ncommit = 0

\* the counter starts at 0 when the driver loads; a device that has been
\* up for 2^32 - 2 pipe commits has it two short of wrapping
SeqInit ==
    /\ seq_next \in {u32(0, 0), u32(65535, 65534)}
    /\ seq_list = << >>
    /\ seq_ncommit = 0

SeqNext == seq_commit \/ seq_dequeue

(***************************************************************************)
(* Completion events: the events a transaction with DRM_MODE_ATOMIC_EVENT  *)
(* allocates, hands to its flips or queues itself, and frees on failure.   *)
(* One active pipe; object 0 is its primary plane (the crtc), object 1 a   *)
(* sprite plane on it.  A flip is handed to the drm_flip helper at once    *)
(* (drm_async_gpu off).                                                     *)
(***************************************************************************)
\* bound on the transactions of a run
EvtMaxTxns == 2
\* framebuffer ids
EvtNumFbs == 2
\* file_priv->event_space when the file is opened, in events
EvtSpace == 2

EvtObjs == {0, 1}
EvtFbs == 1 .. EvtNumFbs

EvtFrame ==
    UNCHANGED <<flipvars, txnvars, scanvars, dsbvars,
                vblvars, cmpvars, bwvars, sclvars, armvars, refvars, seqvars>>

\* the state of an object in a transaction that is not open
EvtNoObjState == [changed |-> FALSE, event |-> FALSE, old_fb |-> 0]

EvtNoState == [event_flag |-> FALSE, nonblock |-> FALSE,
               obj |-> [o \in EvtObjs |-> EvtNoObjState]]

\* what the operators below read and write
ECtx == [st |-> evt_st, flips |-> evt_flips, sched |-> evt_sched,
         list |-> evt_list, space |-> evt_space, ret |-> "0"]

EStore(E) ==
    /\ evt_flips' = E.flips
    /\ evt_sched' = E.sched
    /\ evt_list' = E.list
    /\ evt_space' = E.space

\* the number of the open transaction
EvtTxn == Len(evt_log)

\* crtc_compute_dirty and plane_compute_dirty, for the buffer alone
EvtDirty(E, o) == E.st.obj[o].changed /\ evt_fb[o] # E.st.obj[o].old_fb

\* queue_event: the event goes to the tail of file_priv->event_list; flip
\* is the flip that carried it, 0 if the commit queued it itself
evt_queue_event(E, txn, o, old_fb_id, flip) ==
    [E EXCEPT !.list = Append(@, [txn |-> txn, obj_id |-> o,
                                  old_fb_id |-> old_fb_id, flip |-> flip])]

\* a commit that queues none of the events it still holds
evt_queue_remaining_events_none(E, o) == E

\* queue_remaining_events, from object o on: every event the state still
\* holds is queued with the id of the object's old buffer
RECURSIVE evt_queue_remaining_events(_, _)
evt_queue_remaining_events(E, o) ==
    IF o \notin EvtObjs THEN E
    ELSE IF ~E.st.obj[o].event THEN evt_queue_remaining_events(E, o + 1)
    ELSE evt_queue_remaining_events(
             [evt_queue_event(E, EvtTxn, o, E.st.obj[o].old_fb, 0)
                 EXCEPT !.st.obj[o].event = FALSE], o + 1)

\* alloc_flip_data, from object o on: an event for every object a property
\* was set on, a flip for every dirty one; no_event and no_flip are the
\* objects at which kzalloc fails (-1: none)
RECURSIVE evt_alloc_flip_data(_, _, _, _)
evt_alloc_flip_data(E, o, no_event, no_flip) ==
    IF o \notin EvtObjs THEN E
    ELSE LET want == E.st.obj[o].changed /\ E.st.event_flag
             A == IF ~want THEN E
                  ELSE IF E.space = 0 THEN [E EXCEPT !.ret = "ENOSPC"]
                  ELSE IF no_event = o THEN [E EXCEPT !.ret = "ENOMEM"]
                  ELSE [E EXCEPT !.space = @ - 1, !.st.obj[o].event = TRUE]
         IN  IF A.ret # "0" THEN A
             ELSE IF EvtDirty(A, o) /\ no_flip = o THEN [A EXCEPT !.ret = "ENOMEM"]
             ELSE evt_alloc_flip_data(A, o + 1, no_event, no_flip)

\* free_flip_data, from object o on: the events the state still holds are freed
RECURSIVE evt_free_flip_data(_, _)
evt_free_flip_data(E, o) ==
    IF o \notin EvtObjs THEN E
    ELSE IF ~E.st.obj[o].event THEN evt_free_flip_data(E, o + 1)
    ELSE evt_free_flip_data([E EXCEPT !.space = @ + 1,
                                      !.st.obj[o].event = FALSE], o + 1)

\* intel_flip_complete: the flip's event is queued with the flip's old_fb_id
evt_flip_complete(E, id) ==
    LET f == E.flips[id]
        A == [E EXCEPT !.flips[id].loc = "done"]
    IN  IF f.event THEN evt_queue_event(A, f.txn, f.obj, f.old_fb_id, id) ELSE A

\* intel_flip_flip: a flip the helper still holds that has not latched
\* exchanges its old_fb_id with the new flip
evt_flip_flip(E, id) ==
    LET pending == E.sched[E.flips[id].obj]
    IN  IF pending # 0 /\ ~E.flips[pending].flipped
        THEN [E EXCEPT !.flips[id].old_fb_id = E.flips[pending].old_fb_id,
                       !.flips[id].exchanged = TRUE,
                       !.flips[pending].old_fb_id = E.flips[id].old_fb_id,
                       !.flips[pending].exchanged = TRUE]
        ELSE E

\* drm_flip_helper: the new flip replaces the one the helper holds, which
\* completes
evt_install_flip(E, id) ==
    LET o == E.flips[id].obj
        A == IF E.sched[o] # 0 THEN evt_flip_complete(E, E.sched[o]) ELSE E
    IN  [A EXCEPT !.sched[o] = id]

\* atomic_pipe_commit with intel_atomic_flip_init, from object o on: every
\* dirty object gets a flip that takes over the object's event
RECURSIVE evt_pipe_commit_init(_, _)
evt_pipe_commit_init(E, o) ==
    IF o \notin EvtObjs THEN E
    ELSE IF ~EvtDirty(E, o) THEN evt_pipe_commit_init(E, o + 1)
    ELSE evt_pipe_commit_init(
             [E EXCEPT !.flips = Append(@,
                           [obj |-> o, txn |-> EvtTxn,
                            event |-> E.st.obj[o].event,
                            old_fb_id |-> E.st.obj[o].old_fb,
                            flipped |-> FALSE, exchanged |-> FALSE,
                            loc |-> "helper"]),
                       !.st.obj[o].event = FALSE], o + 1)

\* drm_flip_driver_schedule_flips: the flips from id first on are armed,
\* then installed
RECURSIVE evt_arm_flips(_, _)
evt_arm_flips(E, id) ==
    IF id > Len(E.flips) THEN E ELSE evt_arm_flips(evt_flip_flip(E, id), id + 1)

RECURSIVE evt_install_flips(_, _)
evt_install_flips(E, id) ==
    IF id > Len(E.flips) THEN E
    ELSE evt_install_flips(evt_install_flip(E, id), id + 1)

evt_apply_nonblocking(E) ==
    LET first == Len(E.flips) + 1
    IN  evt_install_flips(evt_arm_flips(evt_pipe_commit_init(E, 0), first), first)

\* intel_atomic_commit
evt_atomic_commit(E, no_event, no_flip, pin_ok, apply_ok) ==
    LET A == evt_alloc_flip_data(E, 0, no_event, no_flip) IN
    IF A.ret # "0" THEN A
    ELSE IF \A o \in EvtObjs : ~EvtDirty(A, o)
    THEN evt_queue_remaining_events(A, 0)
    ELSE IF ~pin_ok THEN [A EXCEPT !.ret = "ENOMEM"]
    ELSE IF A.st.nonblock
    THEN evt_queue_remaining_events(evt_apply_nonblocking(A), 0)
    ELSE IF ~apply_ok THEN [A EXCEPT !.ret = "EIO"]
    ELSE evt_queue_remaining_events(A, 0)

\* intel_atomic_begin
evt_begin ==
    /\ evt_pc = "idle"
    /\ Len(evt_log) < EvtMaxTxns
    /\ \E event_flag, nonblock \in BOOLEAN :
         /\ evt_st' = [event_flag |-> event_flag, nonblock |-> nonblock,
                       obj |-> [o \in EvtObjs |->
                                  [EvtNoObjState EXCEPT !.old_fb = evt_fb[o]]]]
         /\ evt_log' = Append(evt_log,
                [event_flag |-> event_flag, touched |-> {}, old_fb |-> evt_fb,
                 outcome |-> "open"])
    /\ evt_pc' = "open"
    /\ UNCHANGED <<evt_fb, evt_flips, evt_sched, evt_list, evt_space, evt_irq>>
    /\ EvtFrame

\* intel_atomic_set: the buffer of an object is set
evt_set ==
    /\ evt_pc = "open"
    /\ \E o \in EvtObjs, fb \in EvtFbs :
         /\ ~(evt_st.obj[o].changed /\ evt_fb[o] = fb)
         /\ evt_fb' = [evt_fb EXCEPT ![o] = fb]
         /\ evt_st' = [evt_st EXCEPT !.obj[o].changed = TRUE]
         /\ evt_log' = [evt_log EXCEPT ![EvtTxn].touched = @ \cup {o}]
    /\ UNCHANGED <<evt_flips, evt_sched, evt_list, evt_space, evt_pc, evt_irq>>
    /\ EvtFrame

\* intel_atomic_commit, then intel_atomic_end: the events the state still
\* holds are freed, and after a failure the objects are restored
evt_commit ==
    /\ evt_pc = "open"
    /\ \E no_event, no_flip \in {-1} \cup EvtObjs, pin_ok, apply_ok \in BOOLEAN :
         LET A == evt_atomic_commit(ECtx, no_event, no_flip, pin_ok, apply_ok)
         IN  /\ EStore(evt_free_flip_data(A, 0))
             /\ evt_fb' = IF A.ret = "0" THEN evt_fb
                          ELSE [o \in EvtObjs |-> evt_st.obj[o].old_fb]
             /\ evt_log' = [evt_log EXCEPT ![EvtTxn].outcome =
                                IF A.ret = "0" THEN "committed" ELSE "failed"]
    /\ evt_st' = EvtNoState
    /\ evt_pc' = "idle"
    /\ UNCHANGED evt_irq
    /\ EvtFrame

\* the pipe reaches the start of vblank: the armed flips latch
evt_hw_vblank ==
    /\ \E id \in 1 .. Len(evt_flips) :
         evt_flips[id].loc = "helper" /\ ~evt_flips[id].flipped
    /\ evt_flips' = [id \in 1 .. Len(evt_flips) |->
                       IF evt_flips[id].loc = "helper"
                       THEN [evt_flips[id] EXCEPT !.flipped = TRUE]
                       ELSE evt_flips[id]]
    /\ evt_irq' = TRUE
    /\ UNCHANGED <<evt_fb, evt_st, evt_sched, evt_list, evt_space, evt_pc, evt_log>>
    /\ EvtFrame

\* drm_flip_helper_vblank, from object o on: a flip that has latched completes
RECURSIVE evt_helper_vblank(_, _)
evt_helper_vblank(E, o) ==
    IF o \notin EvtObjs THEN E
    ELSE LET id == E.sched[o]
         IN  IF id # 0 /\ E.flips[id].flipped
             THEN evt_helper_vblank(
                      [evt_flip_complete(E, id) EXCEPT !.sched[o] = 0], o + 1)
             ELSE evt_helper_vblank(E, o + 1)

\* intel_atomic_handle_vblank
evt_vblank_irq ==
    /\ evt_irq
    /\ evt_irq' = FALSE
    /\ EStore(evt_helper_vblank(ECtx, 0))
    /\ UNCHANGED <<evt_fb, evt_st, evt_pc, evt_log>>
    /\ EvtFrame

EvtIdle ==
    /\ evt_fb = [o \in EvtObjs |-> 0]
    /\ evt_st = EvtNoState
    /\ evt_flips = << >>
    /\ evt_sched = [o \in EvtObjs |-> 0]
    /\ evt_list = << >>
    /\ evt_space = 0
    /\ evt_pc = "idle"
    /\ evt_irq = FALSE
    /\ evt_log = << >>

\* the primary plane shows framebuffer 1, the sprite is off or shows
\* framebuffer 1; the file holds no event
EvtInit ==
    /\ evt_fb \in {[o \in EvtObjs |-> IF o = 0 THEN 1 ELSE s] : s \in {0, 1}}
    /\ evt_st = EvtNoState
    /\ evt_flips = << >>
    /\ evt_sched = [o \in EvtObjs |-> 0]
    /\ evt_list = << >>
    /\ evt_space = EvtSpace
    /\ evt_pc = "idle"
    /\ evt_irq = FALSE
    /\ evt_log = << >>

EvtNext ==
    \/ evt_begin
    \/ evt_set
    \/ evt_commit
    \/ evt_hw_vblank
    \/ evt_vblank_irq

\* every part of the display code modelled on its own is at rest
AuxIdle == VblIdle /\ CmpIdle /\ BwIdle /\ SclIdle /\ ArmIdle /\ RefIdle /\ SeqIdle /\ EvtIdle

FlipNext ==
    \/ apply_nonblocking
    \/ atomic_pipe_commit_build
    \/ atomic_pipe_commit_enqueue
    \/ atomic_pipe_commit_post
    \/ worker_start
    \/ worker_dequeue
    \/ worker_schedule
    \/ \E r \in Rings : gpu_advance(r)
    \/ gpu_wedged
    \/ \E p \in Pipes : hw_vblank(p)
    \/ \E p \in Pipes : vblank_irq(p)
    \/ \E p \in Pipes : crtc_disable(p)
    \/ \E p \in Pipes : crtc_enable(p)
    \/ drm_flip_finish_work

Init == FlipInit /\ TxnIdle /\ ScanIdle /\ DsbIdle /\ AuxIdle
Next == FlipNext
Spec == Init /\ [][Next]_vars

\* the flip queue without teardown: the committing thread, the fence
\* interrupt, the error handler, the worker and the delivery of the vblank
\* interrupts the schedule calls straddle
FlipQueueNext ==
    \/ apply_nonblocking
    \/ atomic_pipe_commit_build
    \/ atomic_pipe_commit_enqueue
    \/ atomic_pipe_commit_post
    \/ worker_start
    \/ worker_dequeue
    \/ worker_schedule
    \/ \E r \in Rings : gpu_advance(r)
    \/ gpu_wedged
    \/ \E p \in Pipes : vblank_irq(p)
    \/ drm_flip_finish_work

\* the committing thread runs on to the end of atomic_pipe_commit, and the
\* workqueue runs the queued flip.work to the end; the GPU, the error
\* handler and user space owe nothing
FlipQueueFairness ==
    /\ WF_vars(atomic_pipe_commit_build)
    /\ WF_vars(atomic_pipe_commit_enqueue)
    /\ WF_vars(atomic_pipe_commit_post)
    /\ WF_vars(worker_start)
    /\ WF_vars(worker_dequeue)
    /\ WF_vars(worker_schedule)

\* flips are synchronised with the GPU asynchronously (i915.async_gpu set)
FlipQueueInit == Init /\ drm_async_gpu

SpecFlipFair == FlipQueueInit /\ [][FlipQueueNext]_vars /\ FlipQueueFairness

\* the transactions of one client on a device whose flip queue is idle
TxnSpecInit ==
    /\ TxnInit
    /\ FlipInit
    /\ drm_async_gpu
    /\ crtc_active = [p \in Pipes |-> crtc_list[p].enabled]
    /\ ScanIdle
    /\ DsbIdle
    /\ AuxIdle

SpecTxn == TxnSpecInit /\ [][TxnNext]_vars

\* the flips of one pipe and the buffers they pin, on a device that does
\* nothing else
ScanSpecInit ==
    /\ ScanInit
    /\ FlipInit
    /\ ~drm_async_gpu
    /\ crtc_active = [p \in Pipes |-> FALSE]
    /\ TxnIdle
    /\ DsbIdle
    /\ AuxIdle

SpecScan == ScanSpecInit /\ [][ScanNext]_vars

\* one DSB of one pipe, on a device that does nothing else
DsbSpecInit ==
    /\ DsbInit
    /\ FlipInit
    /\ ~drm_async_gpu
    /\ crtc_active = [p \in Pipes |-> FALSE]
    /\ TxnIdle
    /\ ScanIdle
    /\ AuxIdle

SpecDsb == DsbSpecInit /\ [][DsbNext]_vars

\* the same, where the thread inside intel_dsb_wait keeps running
SpecDsbFair ==
    /\ SpecDsb
    /\ WF_vars(dsb_wait_poll)
    /\ WF_vars(dsb_wait_done)

\* the flip queue, the transactions, the scanout buffers and the DSB at rest
DisplayIdle ==
    /\ FlipInit
    /\ ~drm_async_gpu
    /\ crtc_active = [p \in Pipes |-> FALSE]
    /\ TxnIdle
    /\ ScanIdle
    /\ DsbIdle

\* one flip on one active pipe, on a device that does nothing else
VblSpecInit == VblInit /\ CmpIdle /\ BwIdle /\ SclIdle /\ ArmIdle /\ RefIdle /\ SeqIdle
            /\ EvtIdle /\ DisplayIdle

SpecVbl == VblSpecInit /\ [][VblNext]_vars

\* the same, where the committing thread keeps running and time passes while
\* it sleeps
SpecVblFair ==
    /\ SpecVbl
    /\ WF_vars(evade_loop)
    /\ WF_vars(evade_tick)
    /\ WF_vars(evade_wake)
    /\ WF_vars(schedule_flips_arm)

\* the comparison of frame counts, on a device that does nothing else
CmpSpecInit == CmpInit /\ VblIdle /\ BwIdle /\ SclIdle /\ ArmIdle /\ RefIdle /\ SeqIdle
            /\ EvtIdle /\ DisplayIdle

SpecCmp == CmpSpecInit /\ [][CmpNext]_vars

\* the bandwidth check, on a device that does nothing else
BwSpecInit == BwInit /\ VblIdle /\ CmpIdle /\ SclIdle /\ ArmIdle /\ RefIdle /\ SeqIdle
            /\ EvtIdle /\ DisplayIdle

SpecBw == BwSpecInit /\ [][BwNext]_vars

\* scaler setup, on a device that does nothing else
SclSpecInit == SclInit /\ VblIdle /\ CmpIdle /\ BwIdle /\ ArmIdle /\ RefIdle /\ SeqIdle
            /\ EvtIdle /\ DisplayIdle

SpecScl == SclSpecInit /\ [][SclNext]_vars

\* arming the planes of a pipe, on a device that does nothing else
ArmSpecInit == ArmInit /\ VblIdle /\ CmpIdle /\ BwIdle /\ SclIdle /\ RefIdle /\ SeqIdle
            /\ EvtIdle /\ DisplayIdle

SpecArm == ArmSpecInit /\ [][ArmNext]_vars

\* duplicating and destroying plane states, on a device that does nothing else
RefSpecInit ==
    RefInit /\ VblIdle /\ CmpIdle /\ BwIdle /\ SclIdle /\ ArmIdle /\ SeqIdle
            /\ EvtIdle /\ DisplayIdle

SpecRef == RefSpecInit /\ [][RefNext]_vars

\* the numbering of the flip groups, on a device that does nothing else
SeqSpecInit ==
    /\ SeqInit
    /\ VblIdle /\ CmpIdle /\ BwIdle /\ SclIdle /\ ArmIdle /\ RefIdle /\ EvtIdle
    /\ DisplayIdle

SpecSeq == SeqSpecInit /\ [][SeqNext]_vars

\* the completion events, on a device that does nothing else
EvtSpecInit ==
    /\ EvtInit
    /\ VblIdle /\ CmpIdle /\ BwIdle /\ SclIdle /\ ArmIdle /\ RefIdle /\ SeqIdle
    /\ DisplayIdle

SpecEvt == EvtSpecInit /\ [][EvtNext]_vars

\* waits for scanline windows on a DSB that was just prepared
SpecDsl == DsbSpecInit /\ [][DslNext]_vars

\* register writes among other instructions
DsbMixSpecInit ==
    /\ DsbMixInit
    /\ FlipInit
    /\ ~drm_async_gpu
    /\ crtc_active = [p \in Pipes |-> FALSE]
    /\ TxnIdle
    /\ ScanIdle
    /\ AuxIdle

SpecDsbMix == DsbMixSpecInit /\ [][DsbMixNext]_vars

(***************************************************************************)
(* Properties of the flip queue                                             *)
(***************************************************************************)
\* a descriptor the synchronizer still has to complete
Live(f) == f.loc \in {"flips", "list", "work", "helper"}

\* the pipe a flip helper belongs to
HelperPipe(h) == IF h < NumPipes THEN h ELSE PlanePipe(h - NumPipes + 1)

\* the flips the step arms: in a helper after it, not before
Armed(i) ==
    /\ flips'[i].loc = "helper"
    /\ IF i > Len(flips) THEN TRUE ELSE flips[i].loc # "helper"

\* every flip in a helper, and every live flip of its group, has a signalled
\* fence or none
ProgrammedAfterFence ==
    \A i \in FlipIds : flips[i].loc = "helper" =>
        \A j \in FlipIds :
            (Live(flips[j]) /\ flips[j].flip_seq = flips[i].flip_seq)
                => FenceSignaled(flips[j])

\* the same, counting a fence whose wait was given up as done
ProgrammedAfterFenceOrAbandoned ==
    \A i \in FlipIds : flips[i].loc = "helper" =>
        \A j \in FlipIds :
            (Live(flips[j]) /\ flips[j].flip_seq = flips[i].flip_seq)
                => (FenceSignaled(flips[j]) \/ flips[j].abandoned)

\* a flip that leaves flip.list, or the worker's hands, does so with every
\* flip of its group, and they all go to the same place
GroupLeavesTogether ==
    \A i \in FlipIds : \A j \in FlipIds :
        (/\ flips[i].loc \in {"list", "work"}
         /\ flips'[i].loc # flips[i].loc
         /\ flips[j].loc = flips[i].loc
         /\ flips[j].flip_seq = flips[i].flip_seq)
            => flips'[j].loc = flips'[i].loc

CompletionInOrder ==
    \A k \in 1 .. Len(complete_log) :
        /\ \A j \in FlipIds :
             (/\ Live(flips[j])
              /\ flips[j].pipe = complete_log[k].pipe
              /\ flips[j].plane = complete_log[k].plane)
                => flips[j].flip_seq >= complete_log[k].flip_seq
        /\ \A m \in 1 .. Len(complete_log) :
             (/\ m > k
              /\ complete_log[m].pipe = complete_log[k].pipe
              /\ complete_log[m].plane = complete_log[k].plane)
                => complete_log[m].flip_seq >= complete_log[k].flip_seq

\* a flip that is armed is older than every flip of its pipe still waiting
ProgrammingInOrder ==
    \A i \in FlipIds : \A j \in FlipIds :
        (/\ flips[i].loc = "helper"
         /\ flips[j].loc \in {"flips", "list", "work"}
         /\ flips[j].pipe = flips[i].pipe)
            => flips[j].flip_seq > flips[i].flip_seq

\* flip.list holds the flips in the order they were queued
ListInOrder ==
    \A a \in 1 .. Len(flip_list) : \A b \in 1 .. Len(flip_list) :
        a < b => flips[flip_list[a]].flip_seq <= flips[flip_list[b]].flip_seq

\* C2 as stated: of two flips queued for the same pipe the one queued first
\* is programmed first and completes first, and the pending list is never
\* reordered.
C2_AsStated == CompletionInOrder /\ ProgrammingInOrder /\ ListInOrder

\* a call of intel_atomic_wedged: by the error handler, or by
\* atomic_pipe_commit finding the device wedged
WedgedCall ==
    \/ ~wedged /\ wedged'
    \/ cpc = "post" /\ wedged /\ cpc' # "post"

\* C3 as stated: when intel_atomic_wedged returns, every flip that was
\* queued has been completed.
C3_AsStated ==
    [][WedgedCall =>
         \A i \in FlipIds : flips[i].loc = "list" => flips'[i].completes >= 1]_vars

\* C3: when intel_atomic_wedged returns, every flip that was queued is still
\* on the pending list, not completed, with its fence wait given up and the
\* ring's interrupt reference dropped, and the flip work is queued to
\* schedule them.
C3_WedgedAbandonsWaits ==
    [][WedgedCall =>
         /\ \A i \in FlipIds : flips[i].loc = "list" =>
              /\ flips'[i].loc = "list"
              /\ flips'[i].ring = 0
              /\ flips'[i].completes = 0
         /\ flip_list' = flip_list
         /\ flip_list # <<>> => work_pending'
         /\ \A r \in Rings :
              ring_irq_refcount'[r] =
                 Cardinality({i \in 1 .. Len(flips') :
                                flips'[i].loc = "flips" /\ flips'[i].ring = r})]_vars

\* the device is wedged with a flip on the pending list whose fence wait was
\* given up
C3_Witness ==
    /\ wedged
    /\ work_pending
    /\ \E i \in FlipIds :
         flips[i].loc = "list" /\ flips[i].abandoned /\ flips[i].ring = 0

\* no flip of pipe p is on the pending list or in one of p's helpers
NoFlipOfPipe(p) ==
    /\ \A k \in 1 .. Len(flip_list) : flips[flip_list[k]].pipe # p
    /\ \A h \in Helpers : HelperPipe(h) = p => scheduled_flip[h] = 0

\* vblank and fence callbacks find no flip of a pipe that is off
HelpersOfActivePipes ==
    \A h \in Helpers : scheduled_flip[h] # 0 => crtc_active[HelperPipe(h)]

\* C4: when the teardown of a pipe returns no flip of that pipe is on the
\* pending list or in a flip helper, and while the pipe is off none enters a
\* helper, so no vblank callback acts on a flip of the pipe.
C4_TeardownLeavesNoFlip ==
    [][/\ \A p \in Pipes :
            (crtc_active[p] /\ ~crtc_active'[p]) => NoFlipOfPipe(p)'
       /\ HelpersOfActivePipes']_vars

\* a teardown has just completed a flip from a helper of the pipe and one
\* from the pending list
C4_Witness ==
    \E p \in Pipes :
        /\ ~crtc_active[p]
        /\ \E k \in 1 .. Len(complete_log) :
             complete_log[k].how = "clear_helper" /\ complete_log[k].pipe = p
        /\ \E k \in 1 .. Len(complete_log) :
             complete_log[k].how = "clear_list" /\ complete_log[k].pipe = p

\* C5 as stated: forced completion completes the flips in the order they
\* were queued; stated for the flips of one object: a flip dropped by a
\* teardown, or completed unprogrammed because the pipe is off, never
\* completes before an older flip of the same object.
C5_AsStated ==
    \A k \in 1 .. Len(complete_log) :
        complete_log[k].how \in {"clear_helper", "clear_list", "inactive"} =>
            \A j \in FlipIds :
                (/\ Live(flips[j])
                 /\ flips[j].pipe = complete_log[k].pipe
                 /\ flips[j].plane = complete_log[k].plane)
                    => flips[j].flip_seq > complete_log[k].flip_seq

\* the number of places that hold flip id
Holders(id) ==
    Cardinality({k \in 1 .. Len(flip_list) : flip_list[k] = id})
  + Cardinality({k \in 1 .. Len(worker_flips) : worker_flips[k] = id})
  + Cardinality({k \in 1 .. Len(c_flips) : c_flips[k] = id})
  + Cardinality({h \in Helpers : scheduled_flip[h] = id})
  + Cardinality({k \in 1 .. Len(finish_list) : finish_list[k] = id})

ArmedTogether ==
    \A i \in 1 .. Len(flips') : \A j \in 1 .. Len(flips') :
        (/\ Armed(i)
         /\ Live(flips'[j])
         /\ flips'[j].flip_seq = flips'[i].flip_seq)
            => Armed(j)

\* the flips a step arms for one pipe commit wait for the same frame
SameVblank ==
    \A i \in 1 .. Len(flips') : \A j \in 1 .. Len(flips') :
        (Armed(i) /\ Armed(j) /\ flips'[j].flip_seq = flips'[i].flip_seq)
            => flips'[j].vbl_count = flips'[i].vbl_count

Checked == tpc \in {"checked", "check_failed"}

\* the transaction changes the mode, the on/off state or the sinks of a pipe
NeedsModeset == \E p \in Pipes : atomic_state.crtc[p].mode_dirty

\* the lowest pipe that needs a modeset
FirstModeset ==
    CHOOSE p \in Pipes :
        /\ atomic_state.crtc[p].mode_dirty
        /\ \A q \in Pipes : q < p => ~atomic_state.crtc[q].mode_dirty

\* C8 as the spec states it: a NONBLOCK transaction in which a pipeline needs
\* a full mode change is answered with "try again" (EAGAIN) by check
C8_AsStated ==
    (Checked /\ atomic_state.nonblock /\ NeedsModeset) => ret = "EAGAIN"

\* C8: a NONBLOCK transaction in which a pipeline needs a full mode change
\* never passes check; the answer is "try again" unless a lower-numbered
\* pipe with a dirty buffer, pan or cursor but no mode change fails its own
\* validation first, and then it is that validation error
C8_NonblockModesetNeverPasses ==
    (Checked /\ atomic_state.nonblock /\ NeedsModeset) =>
        /\ tpc = "check_failed"
        /\ \/ ret = "EAGAIN"
           \/ /\ ret \in {"EINVAL", "ENOSPC"}
              /\ \E q \in Pipes :
                    /\ q < FirstModeset
                    /\ \/ atomic_state.crtc[q].fb_dirty
                       \/ atomic_state.crtc[q].cursor_dirty

\* a NONBLOCK transaction that pans pipe 0 and changes the mode of pipe 1 was
\* checked: pipe 0 passed its validation and the answer is "try again"
C8_Witness ==
    /\ tpc = "check_failed"
    /\ ret = "EAGAIN"
    /\ atomic_state.nonblock
    /\ atomic_state.crtc[0].fb_dirty
    /\ ~atomic_state.crtc[0].mode_dirty
    /\ atomic_state.crtc[1].mode_dirty

\* the transaction was ended after check answered "try again"
EndedTryAgain == tpc = "idle" /\ ntxn > 0 /\ ret = "EAGAIN"

\* C9 as the spec states it: once a transaction rejected with "try again" is
\* ended, no display hook was called and every live pipe, plane and
\* connector holds the value it had at begin
C9_AsStated ==
    EndedTryAgain =>
        /\ hw_writes = 0
        /\ crtc_list = begin_objs.crtc_list
        /\ plane_list = begin_objs.plane_list
        /\ connector_list = begin_objs.connector_list

NothingDirty ==
    /\ ~atomic_state.dirty
    /\ \A p \in Pipes :
          LET st == atomic_state.crtc[p] IN
          ~st.mode_dirty /\ ~st.fb_dirty /\ ~st.cursor_dirty /\ ~st.active_dirty
    /\ \A k \in PlaneIds : ~atomic_state.plane[k].dirty

\* C10 as the spec states it: in a transaction that set no property, check
\* passes and leaves the global flag and every pipe and plane flag clear, and
\* commit returns success with no display hook called and no pin count moved
C10_AsStated ==
    nsets = 0 =>
        /\ tpc \notin {"check_failed", "commit_failed"}
        /\ tpc = "checked" => NothingDirty
        /\ tpc = "committed" =>
              /\ ret = "0"
              /\ hw_writes = 0
              /\ pin_count = begin_objs.pin_count


(***************************************************************************)
(* Transactions: failures during commit                                    *)
(***************************************************************************)
\* what the registers h put on screen: the other registers of a pipe that is
\* off show nothing
Shown(h) ==
    [pipe |-> [p \in Pipes |->
                 IF h.pipe[p].on THEN h.pipe[p]
                 ELSE [on |-> FALSE, mode |-> 0, fb |-> 0, x |-> 0, cursor |-> 0,
                       primary |-> FALSE]],
     plane |-> h.plane]

\* the transaction was ended after a display hook failed in commit
EndedHwFailure == tpc = "idle" /\ ntxn > 0 /\ ret = "EIO"

\* C11 as the spec states it: when a display hook fails in a blocking
\* commit, commit returns that error and marks the hardware for restoring,
\* and after end every live pipe, plane and connector equals its value at
\* begin and the hardware shows what it showed at begin
C11_AsStated ==
    /\ (tpc = "commit_failed" /\ ret = "EIO") =>
          atomic_state.restore_hw /\ atomic_state.restore_state
    /\ EndedHwFailure =>
          /\ crtc_list = begin_objs.crtc_list
          /\ plane_list = begin_objs.plane_list
          /\ connector_list = begin_objs.connector_list
          /\ Shown(hw) = Shown(begin_objs.hw)


\* commit failed in a display hook, and possibly the transaction was ended
HwFailure == ret = "EIO" /\ (tpc = "commit_failed" \/ (tpc = "idle" /\ ntxn > 0))

\* C12: when a display hook fails in commit, every buffer pinned for the new
\* state is unpinned again and no buffer of the old state is unpinned: from
\* the return of commit on, and after end, every pin count equals its value
\* before the transaction and no pinned mark is left in the transaction
C12_HwFailureKeepsPins ==
    HwFailure =>
        /\ pin_count = begin_objs.pin_count
        /\ tpc = "commit_failed" =>
              /\ \A p \in Pipes : ~atomic_state.crtc[p].pinned
                                  /\ ~atomic_state.crtc[p].cursor_pinned
              /\ \A k \in 1..num_plane : ~atomic_state.plane[k].pinned

\* a failed commit that had pinned a new scanout buffer, with the old one
\* still pinned
C12_Witness ==
    /\ tpc = "commit_failed" /\ ret = "EIO"
    /\ \E p \in Pipes :
          /\ atomic_state.crtc[p].fb_dirty
          /\ crtc_list[p].fb # 0
          /\ atomic_state.crtc[p].old.fb # 0
          /\ crtc_list[p].fb # atomic_state.crtc[p].old.fb
          /\ pin_count[atomic_state.crtc[p].old.fb] > 0


\* commit returned the error of a failed pin
PinFailure == tpc = "commit_failed" /\ ret = "ENOMEM"

\* C13 as the spec states it: when pinning a scanout, plane or cursor buffer
\* fails in commit, commit returns that error with everything it had pinned
\* unpinned again, so every pin count equals its value before the commit
C13_AsStated == PinFailure => pin_count = begin_objs.pin_count


(***************************************************************************)
(* Properties of the scanout buffers                                        *)
(***************************************************************************)
\* the flips that have not been finished yet
Unfinished == {id \in 1 .. Len(scan_flips) : scan_flips[id].loc # "freed"}

\* the pins buffer b is owed: one per object whose current buffer it is and
\* one per unfinished flip that will unpin it
PinsOwed(b) ==
    Cardinality({o \in ScanObjs : scan_fb[o] = b}) +
    Cardinality({id \in Unfinished : scan_flips[id].old_bo = b})

\* the buffer object o scans out is the object's current one, or an
\* unfinished flip of the object still carries it as its old buffer
ScanoutHeld(o) ==
    \/ surflive[o] = scan_fb[o]
    \/ \E id \in Unfinished : /\ scan_flips[id].obj = o
                              /\ scan_flips[id].old_bo = surflive[o]

\* C14 as the spec states it: the buffer a plane scans out stays pinned
\* until the flip that replaces it has completed and is finished: it is the
\* plane's current buffer or the old buffer of an unfinished flip of that
\* plane (also after a flip that had not latched was superseded), every pin
\* is accounted for by one of these, and so the scanned buffer is pinned
C14_AsStated ==
    /\ \A b \in Bos : scan_pin[b] = PinsOwed(b)
    /\ scan_active =>
          \A o \in ScanObjs : /\ surflive[o] # 0
                              /\ ScanoutHeld(o)
                              /\ scan_pin[surflive[o]] > 0


(***************************************************************************)
(* The DSB command buffer                                                  *)
(***************************************************************************)

\* C15: decoding the instruction stream of the buffer yields exactly the
\* instructions the calls had room for, in program order: N consecutive
\* writes of v1..vN to one register R read back as the N pairs (R,v1)..(R,vN),
\* whether the buffer holds them as one direct write or as an indexed write
\* of count N.
C15_DecodeYieldsWrites ==
    dsb_decode(DCtx, 0, ALIGN(free_pos, 2)) = dsb_prog

\* three writes to one register ended up as one indexed write of count 3
C15_Witness ==
    /\ Len(dsb_prog) >= 3
    /\ dsb_buf[ins_start_offset] = 3
    /\ dsb_buf[ins_start_offset + 1]
           = DSB_OPCODE_INDEXED_WRITE * 2^DSB_OPCODE_SHIFT + 1
    /\ dsb_prog[Len(dsb_prog) - 2].val = 1
    /\ dsb_prog[Len(dsb_prog) - 1].val = 2
    /\ dsb_prog[Len(dsb_prog)].val = 1

\* the count word of the instruction that starts at word i
IndexedCount(i) ==
    IF Ins(dsb_buf[i], dsb_buf[i + 1]).op = DSB_OPCODE_INDEXED_WRITE
    THEN dsb_buf[i] ELSE 0

\* C16: every instruction starts at an even word index, the instructions
\* found by walking the buffer in whole 2-word units are the ones the calls
\* started, and an indexed write of an odd number of values is followed by
\* one zero word before the next instruction.
C16_WholeAlignedUnits ==
    LET st == dsb_ins_starts(DCtx, 0, ALIGN(free_pos, 2))
    IN  /\ ins_start_offset % 2 = 0
        /\ \A k \in 1..Len(dsb_starts) : dsb_starts[k] % 2 = 0
        /\ Len(st) >= Len(dsb_starts)
        /\ SubSeq(st, 1, Len(dsb_starts)) = dsb_starts
        /\ \A k \in 1..Len(dsb_starts) :
               LET i == dsb_starts[k]
                   n == IndexedCount(i)
               IN  n % 2 = 1 =>
                       /\ dsb_buf[i + 2 + n] = 0
                       /\ k < Len(dsb_starts) => dsb_starts[k + 1] = i + 2 + n + 1
        /\ free_pos % 2 = 1 => dsb_buf[free_pos] = 0

\* an indexed write of three values with an instruction behind it
C16_Witness ==
    \E k \in 1..(Len(dsb_starts) - 1) :
        /\ IndexedCount(dsb_starts[k]) = 3
        /\ dsb_buf[dsb_starts[k] + 5] = 0
        /\ dsb_starts[k + 1] = dsb_starts[k] + 6

\* the last call was a commit that found the sequencer running
BusyCommit == dsb_call.op = "commit" /\ dsb_call.busy

\* C17 as the spec states it: a commit on a sequencer that is running hands
\* its caller an error, one that differs from what a commit with an invalid
\* buffer hands back.
C17_AsStated ==
    BusyCommit => dsb_call.ret # "void"

\* C17: a commit on a sequencer that is running returns nothing to its
\* caller; the busy condition only goes to the error log, as a message that
\* differs from the warning of a misaligned tail, and the misaligned tail is
\* looked at first.
C17_BusyOnlyLogged ==
    BusyCommit =>
        /\ dsb_call.ret = "void"
        /\ dsb_call.path \in {"busy", "unaligned"}
        /\ dsb_call.path = "busy" => dsb_call.err = <<"DSB is busy">>
        /\ dsb_call.path = "unaligned" => dsb_call.err = <<"WARN_ON">>

C17_Witness ==
    /\ BusyCommit
    /\ dsb_call.path = "busy"
    /\ dsb_call.err = <<"DSB is busy">>

\* C18: a commit that finds the sequencer busy writes no register and leaves
\* DSB_CTRL, DSB_HEAD, DSB_TAIL and the running execution as they were; a
\* commit that finds it idle writes DSB_TAIL last and once, with a
\* cacheline-aligned value.
C18_BusyCommitWritesNothing ==
    [][\A w \in BOOLEAN :
          intel_dsb_commit(w) =>
              IF is_dsb_busy
              THEN dsb_hw' = dsb_hw /\ dsb_call'.mmio = <<>>
              ELSE dsb_call'.path = "started" =>
                      /\ dsb_call'.mmio[Len(dsb_call'.mmio)] = "DSB_TAIL"
                      /\ \A k \in 1..(Len(dsb_call'.mmio) - 1) :
                             dsb_call'.mmio[k] # "DSB_TAIL"
                      /\ dsb_call'.mmio[1] = "DSB_CTRL"
                      /\ IS_ALIGNED(dsb_hw'.tail, CACHELINE_BYTES)
                      /\ dsb_hw'.tail = intel_dsb_buffer_ggtt_offset + free_pos * 4]_vars

\* a second commit was made while the first still runs
C18_Witness ==
    /\ dsb_call.op = "commit"
    /\ dsb_call.path = "busy"
    /\ dsb_call.mmio = <<>>
    /\ dsb_hw.busy
    /\ dsb_hw.tail > dsb_hw.head

\* the last call was a wait that ran into its timeout
WaitTimedOut == dsb_call.op = "wait" /\ dsb_call.path = "timeout"

\* C19: intel_dsb_wait polls a bounded number of times and then returns; if
\* the sequencer is still busy then, the wait writes ENABLE|HALT to DSB_CTRL,
\* logs head, tail, control and status, and clears DSB_CTRL.
C19_WaitBounded ==
    /\ [](wait_polls <= WaitPolls)
    /\ [](WaitTimedOut =>
             /\ dsb_call.busy
             /\ dsb_call.mmio
                    = <<"DSB_CTRL=ENABLE|HALT", "DSB_CTRL=0", "DSB_INTERRUPT">>
             /\ Len(dsb_call.err) = 1
             /\ dsb_call.err[1].head = dsb_call.hw.head - intel_dsb_buffer_ggtt_offset
             /\ dsb_call.err[1].tail = dsb_call.hw.tail - intel_dsb_buffer_ggtt_offset
             /\ dsb_call.err[1].status = dsb_call.hw.busy
             /\ dsb_call.err[1].ctrl = {"DSB_ENABLE", "DSB_HALT"})
    /\ [](dsb_call.op = "wait" /\ dsb_pc = "idle" =>
              "DSB_CTRL=0" \in {dsb_call.mmio[k] : k \in 1..Len(dsb_call.mmio)})
    /\ (dsb_pc = "wait") ~> (dsb_pc = "idle")

\* a wait gave up on a sequencer that never finished
C19_Witness ==
    /\ WaitTimedOut
    /\ dsb_pc = "idle"
    /\ wait_polls = WaitPolls
    /\ free_pos = 0

\* the lines the pipe counts before the commit
DsbTotal(needs_modeset, vrr_enable, crtc_vtotal) ==
    IF pre_commit_is_vrr_active(needs_modeset, vrr_enable, FALSE)
    THEN crtc_vtotal + 1 ELSE crtc_vtotal

\* vrr.vmax if variable refresh is active before the commit, else the
\* mode's vtotal, over the timings a call may be handed
DsbTotals ==
    {DsbTotal(needs_modeset, vrr_enable, crtc_vtotal) :
        needs_modeset \in BOOLEAN, vrr_enable \in BOOLEAN,
        crtc_vtotal \in 3..MaxVtotal}

\* C20: for a scanline S in [0, total), where total is vrr.vmax if variable
\* refresh is active before the commit and the mode's vtotal otherwise, the
\* value intel_dsb_wait_scanline emits lies in [0, total), and adding the
\* scanline offset to it modulo total gives S.
C20_ScanlineRoundTrip ==
    [][(/\ Len(dsb_prog') = Len(dsb_prog) + 1
        /\ dsb_prog'[Len(dsb_prog')].op = DSB_OPCODE_WAIT_SCANLINE) =>
          \A total \in DsbTotals, offset \in ScanlineOffsets,
             scanline \in 0..MaxVtotal :
              LET hwline == dsb_buf'[ins_start_offset']
              IN  (/\ scanline < total
                   /\ hwline = dsb_scanline_to_hw(scanline, total, offset)) =>
                      /\ hwline \in 0..(total - 1)
                      /\ (hwline + offset) % total = scanline]_vars

\* a scanline below the offset was translated under variable refresh: it
\* wrapped to the last line of vrr.vmax
C20_Witness ==
    \E k \in 1..Len(dsb_prog) :
        /\ dsb_prog[k].op = DSB_OPCODE_WAIT_SCANLINE
        /\ dsb_prog[k].val = MaxVtotal


(***************************************************************************)
(* Dirty flags and sink conflicts of intel_atomic_check                    *)
(***************************************************************************)

\* intel_atomic_check has run on the open transaction
AfterCheck == tpc \in {"checked", "check_failed"}

\* plane k is not what it was at begin()
PlaneDiffers(k) == plane_list[k] # atomic_state.plane[k].old

\* C24 as the spec states it: after check(), every plane whose rectangle,
\* pipe or framebuffer differs from its value at begin() has its dirty flag
\* set, and the transaction's dirty flag is set with it.
C24_AsStated ==
    AfterCheck =>
        \A k \in PlaneIds :
            (k <= num_plane /\ PlaneDiffers(k)) =>
                atomic_state.plane[k].dirty /\ atomic_state.dirty

\* the mode or the active area of pipe p changes in the transaction
PipeReprogrammed(p) ==
    atomic_state.crtc[p].active_dirty \/ atomic_state.crtc[p].mode_dirty

\* C25 as the spec states it: after check(), a plane's dirty flag is set only
\* if its rectangle, pipe or framebuffer differs from its value at begin().
C25_AsStated ==
    AfterCheck =>
        \A k \in PlaneIds :
            (k <= num_plane /\ atomic_state.plane[k].dirty) => PlaneDiffers(k)

\* C25: after check(), a plane's dirty flag is set only if its rectangle,
\* pipe or framebuffer differs from its value at begin(), or the plane sits
\* on a pipe whose mode or active area the transaction changes.
C25_DirtyOnlyIfChangedOrPipeReprogrammed ==
    AfterCheck =>
        \A k \in PlaneIds :
            (k <= num_plane /\ atomic_state.plane[k].dirty) =>
                \/ PlaneDiffers(k)
                \/ /\ plane_list[k].crtc # 0
                   /\ PipeReprogrammed(plane_list[k].crtc - 1)

\* a plane that nothing touched was marked because its pipe changes mode
C25_Witness ==
    /\ tpc = "checked"
    /\ \E k \in PlaneIds :
         /\ k <= num_plane
         /\ atomic_state.plane[k].dirty
         /\ ~PlaneDiffers(k)
         /\ ~atomic_state.plane[k].changed

\* two pipes whose states claim a common connector
PipesOverlap ==
    \E p, q \in Pipes :
        /\ p < q
        /\ atomic_state.crtc[p].connectors_bitmask
               \cap atomic_state.crtc[q].connectors_bitmask # {}

ValidationErrors == {"EINVAL", "ENOSPC", "ENOENT"}

\* C26 as the spec states it: a transaction in which two pipes claim a common
\* connector is rejected by check with a validation error, and after a
\* successful check no connector is claimed by two pipes.
C26_AsStated ==
    AfterCheck =>
        (PipesOverlap => tpc = "check_failed" /\ ret \in ValidationErrors)

\* C26: a transaction in which two pipes claim a common connector is rejected
\* by check, with a validation error or, when the transaction is non-blocking,
\* with the try-again error of the pipe whose outputs changed; after a
\* successful check no connector is claimed by two pipes.
C26_OverlapRejected ==
    AfterCheck =>
        (PipesOverlap =>
            /\ tpc = "check_failed"
            /\ \/ ret \in ValidationErrors
               \/ ret = "EAGAIN" /\ atomic_state.nonblock)

\* the conflict test itself rejects: every pipe passes its own check
C26_Witness ==
    /\ tpc = "check_failed"
    /\ PipesOverlap
    /\ ret = "EINVAL"
    /\ ~atomic_state.nonblock
    /\ \A p \in Pipes : check_crtc(TCtx, p, TRUE).ret = "0"

Val24(a) == a.hi * 65536 + a.lo

\* c is t plus less than half the range of the 24-bit counter
AtOrAfter24(c, t) == ((Val24(c) - Val24(t)) % 16777216) < 8388608

\* c is t plus less than half the range of the 32-bit counter: c - t is
\* dh * 65536 + dl, and it is taken modulo 2^32
AtOrAfter32(c, t) ==
    LET dh == c.hi - t.hi
        dl == c.lo - t.lo
    IN  \/ /\ dh >= 1 \/ (dh = 0 /\ dl >= 0)
           /\ dh < 32768 \/ (dh = 32768 /\ dl < 0)
        \/ dh < -32768
        \/ dh = -32768 /\ dl < 0

\* the count after s, zero after the last count of the range
NextCount(new, s) ==
    IF s.lo < 65535 THEN u32(s.hi, s.lo + 1)
    ELSE IF s.hi < (IF new THEN 65535 ELSE 255) THEN u32(s.hi + 1, 0)
    ELSE u32(0, 0)

\* C23: with either style of counter the target of a flip is the count after
\* the sampled one, zero after the last count, and the flip is reported
\* complete at count C exactly when C is the target plus less than half the
\* range of the counter, in modular arithmetic.
C23_WraparoundSafe ==
    /\ cmp_pc # "idle" => cmp_target = NextCount(cmp_new, cmp_sample)
    /\ cmp_pc = "checked" =>
           (cmp_done <=> IF cmp_new THEN AtOrAfter32(cmp_cur, cmp_target)
                         ELSE AtOrAfter24(cmp_cur, cmp_target))

\* the 24-bit target wrapped to zero, and a count past the wrap completes it
C23_Witness ==
    /\ cmp_pc = "checked"
    /\ ~cmp_new
    /\ cmp_sample = u32(255, 65535)
    /\ cmp_target = u32(0, 0)
    /\ cmp_cur = u32(0, 1)
    /\ cmp_done

(***************************************************************************)
(* C27: whenever the bandwidth check succeeds, the aggregate data rate of  *)
(* the resulting configuration, summed over all pipes, is within the       *)
(* platform's maximum for the resulting number of active planes, the       *)
(* nothing-changed fast path included.                                     *)
(***************************************************************************)
C27_AsStated ==
    (bw_pc = "checked" /\ bw_ret = "0") => BwWithinLimit(BwResulting)

\* the call found more scaler users staged than the pipe has scalers
TooManyScalerUsers ==
    Cardinality(scl_before.new.scaler_users) > scl_crtc.num_scalers

(***************************************************************************)
(* C28: if the number of scaler users requested on a pipe exceeds the      *)
(* number of scalers the pipe has, the setup returns -EINVAL and leaves    *)
(* every scaler and every user's scaler id as it found them.               *)
(***************************************************************************)
C28_TooManyUsersRejected ==
    (scl_pc = "done" /\ TooManyScalerUsers) =>
        /\ scl_ret = "EINVAL"
        /\ scl_new = scl_before.new
        /\ scl_planes = scl_before.planes
        /\ scl_in_state = scl_before.in_state

\* a pipe with fewer scalers than users, one of them without a scaler and a
\* scaler still free, was refused
C28_Witness ==
    /\ scl_pc = "done"
    /\ TooManyScalerUsers
    /\ scl_ret = "EINVAL"
    /\ \E s \in SclScalers : ~scl_new.scalers[s].in_use
    /\ \E k \in scl_in_state :
         k \in scl_new.scaler_users /\ scl_planes[k].scaler_id = INVALID_SCALER

\* the planes armed so far
ArmArmed == {arm_log[i].plane : i \in 1 .. Len(arm_log)}

\* no two planes have overlapping allocations programmed
ArmNoOverlap ==
    \A i, j \in ArmPlanes :
        i # j => /\ ~skl_ddb_entries_overlap(arm_ddb[i], arm_ddb[j])
                 /\ ~skl_ddb_entries_overlap(arm_ddb_y[i], arm_ddb_y[j])

RefLive == {id \in RefIds : ref_states[id].live}

\* the references the live duplicates hold on fb
RECURSIVE RefHeldFrom(_, _)
RefHeldFrom(id, fb) ==
    IF id > RefMaxStates THEN 0
    ELSE (IF ref_states[id].live THEN RefHeld(ref_states[id], fb) ELSE 0)
         + RefHeldFrom(id + 1, fb)

(***************************************************************************)
(* C30: over any sequence of duplicate and destroy of a plane's state,     *)
(* every framebuffer's reference count is its count before the duplicates *)
(* plus the references the live duplicates hold, so it is back at that     *)
(* count once every duplicate is destroyed; and no framebuffer is released *)
(* while a live state references it.                                       *)
(***************************************************************************)
C30_ReferencesBalanced ==
    /\ \A fb \in RefFbs : ref_fb.count[fb] = ref_base[fb] + RefHeldFrom(1, fb)
    /\ RefLive = {} => ref_fb.count = ref_base
    /\ ~ref_fb.underflow
    /\ \A fb \in ref_fb.released :
         /\ RefHeld(ref_plane, fb) = 0
         /\ \A id \in RefLive : RefHeld(ref_states[id], fb) = 0

\* a state whose hw.fb is referenced by nothing but the plane's state was
\* duplicated, and every duplicate is destroyed again
C30_Witness ==
    /\ ref_last = "destroy"
    /\ RefLive = {}
    /\ ref_plane.hw_fb # 0
    /\ ref_plane.hw_fb # ref_plane.uapi_fb
    /\ ref_fb.count[ref_plane.hw_fb] = 1
    /\ ref_fb.count = ref_base

\* the scaler an object of the pipe holds: pch_pfit.scaler_id for the pipe
\* output, plane_state->scaler_id for a plane
SclHeld(u) == IF u = SKL_CRTC_INDEX THEN scl_new.pfit ELSE scl_planes[u].scaler_id

(***************************************************************************)
(* C40: after a successful scaler setup no scaler is held by more than one *)
(* object of the pipe, the pipe output or a plane, and every scaler held   *)
(* is marked in use.                                                       *)
(***************************************************************************)
C40_AsStated ==
    (scl_pc = "done" /\ scl_ret = "0") =>
        /\ \A u, v \in SclUsers :
             (u # v /\ SclHeld(u) # INVALID_SCALER) => SclHeld(u) # SclHeld(v)
        /\ \A u \in SclUsers :
             SclHeld(u) # INVALID_SCALER => scl_new.scalers[SclHeld(u)].in_use

(***************************************************************************)
(* C39: flip.queue_len always equals the number of flips on flip.list:     *)
(* after every enqueue, every group the worker takes off the list and      *)
(* every drain of the list by a pipe's teardown.                           *)
(***************************************************************************)
C39_AsStated == queue_len = Len(flip_list)

(***************************************************************************)
(* C34: tearing down one pipe does not complete, drop or reorder the flips *)
(* queued for other pipes: after the teardown they are still on the        *)
(* pending list, in their order, uncompleted and with their fence waits    *)
(* as they were.                                                           *)
(***************************************************************************)
C34_AsStated ==
    [][\A p \in Pipes :
         (crtc_active[p] /\ ~crtc_active'[p]) =>
             /\ \A i \in FlipIds :
                  (flips[i].loc = "list" /\ flips[i].pipe # p) => flips'[i] = flips[i]
             /\ SelectSeq(flip_list', LAMBDA i : flips[i].pipe # p)
                    = SelectSeq(flip_list, LAMBDA i : flips[i].pipe # p)]_vars

\* C32, as stated: the numbers of the flips on the pending list strictly
\* increase, as unsigned numbers, in the order their commits enqueued them,
\* and the flips of one commit carry one number
C32_AsStated ==
    \A i, j \in 1 .. Len(seq_list) :
        i < j =>
            IF seq_list[i].commit = seq_list[j].commit
            THEN seq_list[i].flip_seq = seq_list[j].flip_seq
            ELSE u32_less(seq_list[i].flip_seq, seq_list[j].flip_seq)

\* C32, amended: the number of a later commit is the number of an earlier
\* one plus the commits between them modulo 2^32, the flips of one commit
\* carry one number, and flips of distinct commits on the pending list never
\* share a number
C32_SeqAdvancesModulo ==
    \A i, j \in 1 .. Len(seq_list) :
        i < j =>
            IF seq_list[i].commit = seq_list[j].commit
            THEN seq_list[i].flip_seq = seq_list[j].flip_seq
            ELSE /\ seq_list[j].flip_seq =
                        u32_add(seq_list[i].flip_seq,
                                seq_list[j].commit - seq_list[i].commit)
                 /\ seq_list[j].flip_seq # seq_list[i].flip_seq

\* two commits have flips on the pending list, the counter wrapped between
\* them, and the later commit enqueued two flips
C32_Witness ==
    \E i, j, k \in 1 .. Len(seq_list) :
        /\ i < j /\ j < k
        /\ seq_list[i].commit # seq_list[j].commit
        /\ seq_list[j].commit = seq_list[k].commit
        /\ u32_less(seq_list[j].flip_seq, seq_list[i].flip_seq)

\* the live pipes, planes and connector links hold the values they had at
\* begin(), and the transaction set at least one property
SetOnlyToOldValues ==
    /\ nsets > 0
    /\ crtc_list = begin_objs.crtc_list
    /\ plane_list = begin_objs.plane_list
    /\ connector_list = begin_objs.connector_list

\* C35, as stated: a transaction that set properties only to the values the
\* objects had at begin() has no dirty flag after check(), and its commit()
\* calls no display hook
C35_AsStated ==
    /\ (tpc = "checked" /\ SetOnlyToOldValues) => NothingDirty
    /\ (tpc = "committed" /\ nsets > 0 /\ plane_list = begin_objs.plane_list
           /\ connector_list = begin_objs.connector_list
           /\ \A p \in Pipes :
                 [crtc_list[p] EXCEPT !.cursor_bo = 0, !.primary_disabled = FALSE]
                 = [begin_objs.crtc_list[p] EXCEPT !.cursor_bo = 0,
                                                   !.primary_disabled = FALSE])
          => hw_writes = 0

\* the same on devices with at least as many planes as pipes, for
\* transactions that touch no pipe with a cursor handle
C35_WithoutCursorHandle ==
    (/\ tpc = "checked"
     /\ SetOnlyToOldValues
     /\ num_plane >= NumPipes
     /\ \A p \in Pipes : atomic_state.crtc[p].changed => crtc_list[p].cursor_handle = 0)
        => NothingDirty

\* the notifications of transaction t for object o: the events on the
\* file's event list and the events flips still carry to their completion
EvtQueued(t, o) ==
    {i \in 1 .. Len(evt_list) : evt_list[i].txn = t /\ evt_list[i].obj_id = o}

EvtCarried(t, o) ==
    {id \in 1 .. Len(evt_flips) :
        /\ evt_flips[id].txn = t /\ evt_flips[id].obj = o
        /\ evt_flips[id].event /\ evt_flips[id].loc = "helper"}

\* one notification, queued or on its way, for every object a committed
\* transaction with the event flag set a property on; none for any other
\* object, for a transaction without the flag or for one that failed
EvtOnePerTouchedObject ==
    \A t \in 1 .. Len(evt_log) : \A o \in EvtObjs :
        LET n == Cardinality(EvtQueued(t, o)) + Cardinality(EvtCarried(t, o))
        IN  IF /\ evt_log[t].outcome = "committed"
               /\ evt_log[t].event_flag
               /\ o \in evt_log[t].touched
            THEN n = 1 /\ (evt_sched[o] = 0 => EvtCarried(t, o) = {})
            ELSE n = 0

\* C31, as stated: one notification per object a property was set on, none
\* for the others and none for a failed transaction, and every notification
\* queued carries the id of the buffer its object had when its transaction
\* began
C31_AsStated ==
    /\ EvtOnePerTouchedObject
    /\ \A i \in 1 .. Len(evt_list) :
         evt_list[i].old_fb_id = evt_log[evt_list[i].txn].old_fb[evt_list[i].obj_id]

\* C31, amended: the same count; a notification carries the id of the buffer
\* its object had when its transaction began unless its flip exchanged ids
\* with another flip of the object, one replacing the other before it
\* latched, and then it carries the id of the buffer the object had when
\* another committed transaction began
C31_OneEventPerTouchedObject ==
    /\ EvtOnePerTouchedObject
    /\ \A i \in 1 .. Len(evt_list) :
         LET e == evt_list[i] IN
         IF e.flip # 0 /\ evt_flips[e.flip].exchanged
         THEN \E t \in 1 .. Len(evt_log) :
                 /\ t # e.txn
                 /\ evt_log[t].outcome = "committed"
                 /\ e.obj_id \in evt_log[t].touched
                 /\ e.old_fb_id = evt_log[t].old_fb[e.obj_id]
         ELSE e.old_fb_id = evt_log[e.txn].old_fb[e.obj_id]

\* a committed transaction with the event flag set a property on one object
\* only and its notification is queued, a flip delivered a notification,
\* and a transaction with the flag failed
C31_Witness ==
    /\ \E t \in 1 .. Len(evt_log) : \E o \in EvtObjs :
         /\ evt_log[t].outcome = "committed" /\ evt_log[t].event_flag
         /\ evt_log[t].touched = {o}
         /\ EvtQueued(t, o) # {}
         /\ \E i \in EvtQueued(t, o) : evt_list[i].flip # 0
    /\ \E t \in 1 .. Len(evt_log) :
         /\ evt_log[t].outcome = "failed" /\ evt_log[t].event_flag
         /\ evt_log[t].touched # {}

\* the last call was a wait for a scanline window that is not the whole
\* frame, made with room in the buffer
DslWait ==
    /\ dsb_call.op \in {"wait_scanline_in", "wait_scanline_out"}
    /\ dsb_call.req.room
    /\ assert_dsl_ok(dsb_call.req.vtotal, dsb_call.req.start, dsb_call.req.end)

\* the lines of the logical window [start, end], which may run over the
\* end of the frame
DslWindow(req) ==
    {(req.start + k) % req.vtotal :
        k \in 0 .. ((req.end - req.start + req.vtotal) % req.vtotal)}

\* the hardware lines a set of logical lines stands for
DslToHw(lines, req) ==
    {(s + req.vtotal - req.offset) % req.vtotal : s \in lines}

\* the bounds a wait instruction carries
DslLower(ins) == ins.val % 2^DSB_SCANLINE_UPPER_SHIFT
DslUpper(ins) ==
    ins.val \div 2^DSB_SCANLINE_UPPER_SHIFT
        + ins.arg * 2^(32 - DSB_SCANLINE_UPPER_SHIFT)

\* the hardware lines at which the sequencer goes past a wait instruction:
\* those inside the bounds for WAIT_DSL_IN, those outside for WAIT_DSL_OUT
DslProceeds(ins, vtotal) ==
    {l \in 0 .. (vtotal - 1) :
        (ins.op = DSB_OPCODE_WAIT_DSL_IN)
            = (DslLower(ins) <= l /\ l <= DslUpper(ins))}

\* C38: a wait for a scanline window that is not the whole frame emits one
\* wait instruction; the hardware lines at which it lets the sequencer go on
\* are the hardware lines of the window for a wait-in and all the others for
\* a wait-out; and a window that wraps in hardware lines is written as the
\* wait of the opposite sense on the lines outside it
C38_WindowWaitExact ==
    DslWait =>
        LET req  == dsb_call.req
            ins  == dsb_prog[Len(dsb_prog)]
            win  == DslToHw(DslWindow(req), req)
            all  == 0 .. (req.vtotal - 1)
            isin == dsb_call.op = "wait_scanline_in"
            wraps == dsb_scanline_to_hw(req.end, req.vtotal, req.offset)
                         < dsb_scanline_to_hw(req.start, req.vtotal, req.offset)
        IN  /\ req.emitted = 1
            /\ dsb_call.err = <<>>
            /\ ins.op \in {DSB_OPCODE_WAIT_DSL_IN, DSB_OPCODE_WAIT_DSL_OUT}
            /\ DslProceeds(ins, req.vtotal) = (IF isin THEN win ELSE all \ win)
            /\ wraps => /\ (ins.op = DSB_OPCODE_WAIT_DSL_OUT) = isin
                        /\ (DslLower(ins) .. DslUpper(ins)) = all \ win
            /\ (isin /\ ~wraps) => /\ ins.op = DSB_OPCODE_WAIT_DSL_IN
                                   /\ (DslLower(ins) .. DslUpper(ins)) = win

\* a wait-in for a window that runs over the end of the frame in logical
\* lines and in hardware lines was written as a wait-out
C38_Witness ==
    /\ DslWait
    /\ dsb_call.op = "wait_scanline_in"
    /\ dsb_call.req.end < dsb_call.req.start
    /\ dsb_prog[Len(dsb_prog)].op = DSB_OPCODE_WAIT_DSL_OUT
    /\ Cardinality(DslWindow(dsb_call.req)) >= 2

\* a call added a value to the instruction that was already the last one
DsbMerged ==
    /\ Len(dsb_prog') = Len(dsb_prog) + 1
    /\ dsb_starts' = dsb_starts

\* the instruction is a write with every byte enabled
DsbFullWrite(ins) ==
    /\ ins.op = DSB_OPCODE_MMIO_WRITE
    /\ ins.arg \div 2^DSB_BYTE_EN_SHIFT = DSB_BYTE_EN

\* C36: whatever writes, masked writes, no-ops, waits and polls are made,
\* decoding the buffer yields the instructions the calls made, in program
\* order; and a write joins the instruction before it only if that is a
\* write with every byte enabled, or an indexed write, to the same register
C36_WritesKeptInOrder ==
    /\ [](dsb_decode(DCtx, 0, ALIGN(free_pos, 2)) = dsb_prog)
    /\ [][DsbMerged =>
             /\ dsb_prog # <<>>
             /\ DsbFullWrite(dsb_prog[Len(dsb_prog)])
             /\ dsb_prog'[Len(dsb_prog')] = [dsb_prog[Len(dsb_prog)]
                                                EXCEPT !.val = dsb_prog'[Len(dsb_prog')].val]
             /\ intel_dsb_buffer_read(DCtx, ins_start_offset + 1) \div 2^DSB_OPCODE_SHIFT
                    \in {DSB_OPCODE_MMIO_WRITE, DSB_OPCODE_INDEXED_WRITE}]_vars

\* two writes to register 1 became one indexed write, a poll of register 1
\* followed, and the write to register 1 after it is an instruction of its
\* own
C36_Witness ==
    /\ Len(dsb_prog) = 11
    /\ IndexedCount(0) = 2
    /\ dsb_prog[10].op = DSB_OPCODE_POLL /\ dsb_prog[10].arg = 1
    /\ dsb_prog[11] = Ins(dsb_prog[11].val, MmioWriteAll(1))
    /\ dsb_buf[ins_start_offset + 1] = MmioWriteAll(1)
    /\ Len(dsb_starts) = 10

\* what each call that emits one instruction would make of the buffer as
\* it is
DsbOneInstruction ==
    {dsb_reg_write(DCtx, reg, val) : reg \in DsbRegs, val \in DsbVals}
    \cup {dsb_reg_write_masked(DCtx, reg, mask, 1) : reg \in DsbRegs, mask \in DsbMasks}
    \cup {dsb_noop(DCtx, 1),
          intel_dsb_emit(DCtx, 1, DSB_OPCODE_WAIT_SCANLINE * 2^DSB_OPCODE_SHIFT),
          intel_dsb_emit_wait_dsl(DCtx, DSB_OPCODE_WAIT_DSL_IN, 0, 1)}

\* the same for the calls that emit several
DsbSeveralInstructions ==
    {dsb_noop(DCtx, 2), dsb_finish(DCtx)}
    \cup {intel_dsb_emit_poll(DCtx, reg, 1, 1, 2, 50) : reg \in DsbRegs}

FlipQueued(id) == id \in FlipIds /\ flips[id].loc = "list"

\* the flips on flip.list up to the end of the group of flip id: the flips
\* the worker has to find ready before it takes the group
FlipsWaitedOn(id) ==
    {flip_list[k] : k \in {j \in 1 .. Len(flip_list) :
        \E m \in j .. Len(flip_list) :
            flips[flip_list[m]].flip_seq = flips[id].flip_seq}}

\* every fence the group of flip id waits on has signalled, or the device
\* has been declared wedged
FencesDone(id) ==
    wedged \/ \A j \in FlipsWaitedOn(id) : FenceSignaled(flips[j])

\* the worker has handed the flip to intel_atomic_schedule_flips
FlipScheduled(id) ==
    id \in FlipIds /\ flips[id].loc \notin {"flips", "list", "work"}

====
